---- MODULE Spec2Model ----
(***************************************************************************)
(* Reader engine of rkui: the Kafka object (src/kafka/service.rs), its     *)
(* assignment planner (src/kafka/assignment.rs) and the three reading      *)
(* strategies (src/kafka/reader/*.rs), together with the broker-side log   *)
(* and the rdkafka consumer they poll.                                     *)
(*                                                                         *)
(* One consume_next call is a sequence of steps: every poll of the source  *)
(* is one step, because the result of a poll is the only nondeterminism of *)
(* the call.  The call holds the AppState.kafka mutex from its first step  *)
(* to its return, so reconfigure and apply_filters happen only between     *)
(* calls (pc = "idle").                                                    *)
(***************************************************************************)
EXTENDS Integers, Sequences, FiniteSets, Bags, TLC

(***************************************************************************)
(* Bounds of the model.                                                    *)
(***************************************************************************)
MaxRecords == 3
MaxLimit == 2

\* Records and batch size of the merge-oldest runs.
MergeRecords == 4

MergeLimit == 3
\* Filtered-load runner tasks alive at the same time.
MaxRunners == 2

(***************************************************************************)
(* Program constants.                                                      *)
(***************************************************************************)
I64Max == 2147483647
Beginning == -2
NotAvailable == -1
BACK_WINDOW == 2000
IDLE_LIMIT_BATCH == 20
IDLE_LIMIT_FILL == 20
IDLE_LIMIT_REFILL == 5
IDLE_LIMIT_DRAIN == 40

(***************************************************************************)
(* The topic: its partitions, the retention floors a partition can have,   *)
(* the timestamps a producer can stamp, and the inputs of the UI.          *)
(***************************************************************************)
TopicPartitions == {0, 1}
LowSet == {1}
Timestamps == {1, NotAvailable}
\* Arguments of apply_filters: <<partition, start_offset, start_from>>.
FilterArgs ==
    { <<<<"all">>, <<>>, <<"oldest">>>>, <<<<"all">>, <<>>, <<"newest">>>>,
      <<<<"all">>, <<3>>, <<"oldest">>>>,
      <<<<"">>, <<>>, <<"oldest">>>>, <<<<"">>, <<3>>, <<"oldest">>>>,
      <<<<"">>, <<>>, <<"newest">>>>,
      <<<<"0">>, <<>>, <<"oldest">>>>, <<<<"0">>, <<0>>, <<"oldest">>>>,
      <<<<"0">>, <<2>>, <<"oldest">>>>, <<<<"0">>, <<3>>, <<"oldest">>>>,
      <<<<"0">>, <<>>, <<"newest">>>>,
      <<<<"0">>, <<>>, <<>>>>,
      <<<<"x">>, <<>>, <<"oldest">>>> }
ConfigStartFroms == {<<"oldest">>, <<"newest">>}
ConfigSelectors == {<<"all">>, <<"0">>}
Limits == 1..MaxLimit

VARIABLES
    low,              \* broker: low watermark of every partition
    log,              \* broker: timestamps of the records low[p], low[p]+1, ...
    position,         \* consumer: assigned partitions and their fetch offsets
    configured,       \* AppState.kafka is Some
    config,           \* Kafka.config (partition, start_offset, start_from)
    assigned,         \* Kafka.assigned
    end_offsets,      \* Kafka.end_offsets
    partitions,       \* Kafka.partitions
    done_partitions,  \* Kafka.done_partitions
    buffers,          \* Kafka.buffers
    pc,               \* position inside the consume_next call in progress
    limit,            \* argument of the call in progress
    out,              \* out / collected of the call in progress
    idle_loops,       \* idle_loops of the call in progress
    local_idle,       \* local_idle of the targeted refill
    heap,             \* the BinaryHeap of the merge
    pick_p,           \* partition popped last by the merge
    starting_offsets, \* offsets handed to Consumer::assign for the plan
    emitted,          \* history: records returned since the plan was reset
    batch,            \* history: batch returned by the last consume_next
    result,           \* history: the last command and "ok" or "err"
    polled,           \* history: the last consume_next polled the source
    entry_drained,    \* history: the last consume_next found all done, no buffer
    early,            \* history: a record was emitted before the merge was complete
    plan_origin,      \* history: the command that reset the plan last
    load_session,     \* AppState.load_session: 0 (None) or the task of the session
    tasks,            \* the spawned filtered-load runners
    orphans,          \* consumers of replaced engines that runners still hold
    run_emitted,      \* history: records the runners emitted, by consumer
    planner_runs,     \* history: executions of the planner since the last reset
    events,           \* history: what every session emitted to the window
    probe,            \* the planner alone: watermarks given, offset assigned
    poll_stats,       \* history: idle polls of the last consume_next, and failures
    decoded,          \* the decoders alone: inputs given, output returned
    decoder,          \* the engine's decoders, as the decoding of each record
    threads,          \* the locks alone: what each thread holds and has left to do
    matched,          \* the filters alone: a record and filters given, the verdict
    linked            \* the linker alone: a descriptor set given, the outcome

runVars == <<load_session, tasks, orphans, run_emitted, probe, decoded, decoder,
            threads, matched, linked>>

vars == <<low, log, position, configured, config, assigned, end_offsets,
          partitions, done_partitions, buffers, pc, limit, out, idle_loops,
          local_idle, heap, pick_p, starting_offsets, emitted, batch, result,
          polled, entry_drained, early, plan_origin, load_session, tasks,
          orphans, run_emitted, planner_runs, events, probe, poll_stats,
          decoded, decoder, threads, matched, linked>>

(***************************************************************************)
(* Decoding (src/kafka/decoder.rs, src/kafka/service.rs Kafka::decode,     *)
(* src/proto_decoder/mod.rs).  A byte string is a sequence of 0..255, an   *)
(* optional input is <<>> (None) or <<bytes>> (Some), a String is the      *)
(* sequence of its code points.                                            *)
(***************************************************************************)
Strings(S, n) == UNION {[1..k -> S] : k \in 0..n}

Optional(S) == {<<>>} \cup {<<x>> : x \in S}

\* 'A', the two bytes of U+00E9, and a byte no UTF-8 sequence contains.
TextBytes == {65, 195, 169, 255}

\* Tags of field 0 (invalid; 2 is also the length of a two-byte frame), of
\* field 1 as varint (0x08) and as length-delimited (0x0A), and a byte with
\* the continuation bit.
WireBytes == {0, 1, 2, 8, 10, 255}

\* U+FFFD REPLACEMENT CHARACTER
REPLACEMENT == 65533

\* String::from_utf8_lossy: every well-formed sequence gives its code point,
\* every ill-formed byte one U+FFFD (sequences of one and two bytes).
RECURSIVE Lossy(_)
Lossy(b) ==
    IF b = <<>> THEN <<>>
    ELSE LET two == b[1] \in 194..223 /\ Len(b) >= 2 /\ b[2] \in 128..191
             char == IF b[1] < 128 THEN b[1]
                     ELSE IF two THEN (b[1] - 192) * 64 + (b[2] - 128)
                     ELSE REPLACEMENT
         IN  <<char>> \o Lossy(SubSeq(b, IF two THEN 3 ELSE 2, Len(b)))

\* x.map(|k| String::from_utf8_lossy(k).to_string()).unwrap_or_default()
LossyOrDefault_Raw(x) == IF x = <<>> THEN <<>> ELSE x[1]

LossyOrDefault(x) == IF x = <<>> THEN <<>> ELSE Lossy(x[1])

TextDecoder(key, payload) == <<LossyOrDefault(key), LossyOrDefault(payload)>>

JsonDecoder_Strict(key, payload) ==
    <<LossyOrDefault(key), LossyOrDefault_Raw(payload)>>

JsonDecoder(key, payload) == <<LossyOrDefault(key), LossyOrDefault(payload)>>

ProtobufDecoder(key, payload) == <<LossyOrDefault(key), LossyOrDefault(payload)>>

MessageTypes == {"json", "text", "protobuf"}

decoder_for(ty, key, payload) ==
    CASE ty = "json" -> JsonDecoder(key, payload)
      [] ty = "text" -> TextDecoder(key, payload)
      [] ty = "protobuf" -> ProtobufDecoder(key, payload)

\* The descriptor set of the model: message A { string f = 1; } and
\* message B { int64 f = 1; }, by the wire type of field 1.
Messages == [A |-> 2, B |-> 0]

\* candidates: the sorted message names of the descriptor set.
Candidates == <<"A", "B">>

\* message_full_name: none, a message of the set, or a name the UI selected
\* that the descriptor set does not contain.
Selections == Optional({"A", "B", "X"})

\* The loop of parse_varint: the bytes read, at most 10, up to the first
\* byte with MSB = 0.
VarintRead(bytes) ==
    LET n == IF Len(bytes) < 10 THEN Len(bytes) ELSE 10
        S == {j \in 1..n : bytes[j] < 128}
    IN  IF S = {} THEN n ELSE CHOOSE j \in S : \A k \in S : j <= k

\* A value that exceeds every length and count it is compared with.
VARINT_CAP == 1048576

RECURSIVE VarintVal(_, _)
VarintVal(bytes, i) ==
    IF i = 0 THEN 0
    ELSE LET rest == VarintVal(Tail(bytes), i - 1)
         IN  IF rest >= VARINT_CAP \div 128 THEN VARINT_CAP
             ELSE (bytes[1] % 128) + 128 * rest

\* parse_varint: <<>> for None, <<consumed, value>> for Some.
ParseVarint(bytes) ==
    LET i == VarintRead(bytes)
    IN  IF i = 0 \/ bytes[i] >= 128 THEN <<>> ELSE <<i, VarintVal(bytes, i)>>

Drop(bytes, n) == SubSeq(bytes, n + 1, Len(bytes))

\* Skip n consecutive varints from offset off: the new offset, -1 if one of
\* them is not a varint.
RECURSIVE SkipVarints(_, _, _)
SkipVarints(base, off, n) ==
    IF n = 0 THEN off
    ELSE LET v == ParseVarint(Drop(base, off))
         IN  IF v = <<>> THEN -1 ELSE SkipVarints(base, off + v[1], n - 1)

\* for n in 1..=5: the views after n varints, until one fails to parse.
RECURSIVE SkipViews(_, _)
SkipViews(base, n) ==
    IF n > 5 THEN <<>>
    ELSE LET off == SkipVarints(base, 0, n)
         IN  IF off = -1 THEN <<>>
             ELSE (IF off < Len(base) THEN <<Drop(base, off)>> ELSE <<>>)
                      \o SkipViews(base, n + 1)

\* The count + indices pattern.
CountView(base) ==
    LET v == ParseVarint(base)
    IN  IF v = <<>> THEN <<>>
        ELSE LET c == IF v[2] < 5 THEN v[2] ELSE 5
                 off == SkipVarints(base, v[1], c)
             IN  IF off # -1 /\ off < Len(base) THEN <<Drop(base, off)>> ELSE <<>>

\* 2) Confluent Schema Registry envelope
ConfluentViews(payload) ==
    IF Len(payload) > 5 /\ payload[1] = 0
    THEN LET base == Drop(payload, 5)
         IN  <<base>> \o SkipViews(base, 1) \o CountView(base)
    ELSE <<>>

\* u32::from_be_bytes of payload[1..5], capped like a varint value.
FrameLen(payload) ==
    IF payload[2] # 0 \/ payload[3] # 0 THEN VARINT_CAP
    ELSE payload[4] * 256 + payload[5]

\* 3) gRPC framing
GrpcViews(payload) ==
    IF /\ Len(payload) >= 5
       /\ payload[1] \in {0, 1}
       /\ Len(payload) >= 5 + FrameLen(payload)
    THEN <<SubSeq(payload, 6, 5 + FrameLen(payload))>>
    ELSE <<>>

\* 4) Bare varint length prefix
PrefixViews(payload) ==
    LET i == VarintRead(payload)
        len_val == VarintVal(payload, i)
    IN  IF i > 0 /\ len_val > 0 /\ Len(payload) >= i + len_val
        THEN <<SubSeq(payload, i + 1, i + len_val)>>
        ELSE <<>>

\* views: raw bytes, the repair with a 0x0A tag prepended, the envelopes.
Views(payload) ==
    <<payload, <<10>> \o payload>> \o ConfluentViews(payload)
        \o GrpcViews(payload) \o PrefixViews(payload)

ValidUtf8(bytes) == REPLACEMENT \notin {Lossy(bytes)[j] : j \in 1..Len(Lossy(bytes))}

\* md.parse_from_bytes(bytes): the protobuf wire format read as message
\* name; a known field of another wire type and a string that is not UTF-8
\* are errors, unknown fields are skipped.
\* The bytes the first field of bytes takes, tag included, read as a field of
\* message name; 0 when it cannot be read.
FieldLen(name, bytes) ==
    LET tag == ParseVarint(bytes) IN
    IF tag = <<>> THEN 0
    ELSE LET field == tag[2] \div 8
             wire == bytes[1] % 8
             body == Drop(bytes, tag[1])
             known == field = 1
             v == ParseVarint(body)
         IN  IF field = 0 \/ (known /\ wire # Messages[name]) THEN 0
             ELSE IF wire = 0 THEN (IF v = <<>> THEN 0 ELSE tag[1] + v[1])
             ELSE IF wire = 2
                  THEN IF /\ v # <<>>
                          /\ Len(body) >= v[1] + v[2]
                          /\ known => ValidUtf8(SubSeq(body, v[1] + 1, v[1] + v[2]))
                       THEN tag[1] + v[1] + v[2] ELSE 0
             ELSE IF wire = 1 THEN (IF Len(body) >= 8 THEN tag[1] + 8 ELSE 0)
             ELSE IF wire = 5 THEN (IF Len(body) >= 4 THEN tag[1] + 4 ELSE 0)
             ELSE 0

RECURSIVE ParsesAs(_, _)
ParsesAs(name, bytes) ==
    \/ bytes = <<>>
    \/ LET k == FieldLen(name, bytes)
       IN  k > 0 /\ ParsesAs(name, Drop(bytes, k))

\* resolve_msg
Resolves(name) == name \in DOMAIN Messages

\* A decoded value: the JSON of the view bytes parsed as message of, or
\* (of = "") a plain text.
Json(name, bytes) == [of |-> name, text |-> bytes]

Text(chars) == [of |-> "", text |-> chars]

\* for v in views: the JSON of the first view that parses as name.
RECURSIVE FirstParsed(_, _)
FirstParsed(name, views) ==
    IF views = <<>> THEN <<>>
    ELSE IF ParsesAs(name, views[1]) THEN <<Json(name, views[1])>>
    ELSE FirstParsed(name, Tail(views))

\* try_with_name: <<json>> for Some(json), <<>> for None.
TryWithName(name, views) ==
    IF Resolves(name) THEN FirstParsed(name, views) ELSE <<>>

\* if let Some(json) = first { return Ok(json) }, then for name in
\* &self.candidates the same.
RECURSIVE TryCandidates(_, _)
OrCandidates(first, names, views) ==
    IF first # <<>> THEN first ELSE TryCandidates(names, views)

TryCandidates(names, views) ==
    IF names = <<>> THEN <<>>
    ELSE OrCandidates(TryWithName(names[1], views), Tail(names), views)

TrySelected(sel, views) ==
    IF sel = <<>> THEN <<>> ELSE TryWithName(sel[1], views)

\* ProtoDecoder::decode of a decoder with message_full_name sel: <<json>>
\* for Ok(json), <<>> for Err(_).
ProtoDecode_SelectedOnly(sel, payload) == TrySelected(sel, Views(payload))

DecodeViews(sel, views) ==
    OrCandidates(TrySelected(sel, views), Candidates, views)

ProtoDecode(sel, payload) == DecodeViews(sel, Views(payload))

\* Kafka::decode of an engine with message type ty and, for protobuf, a
\* decoder with message_full_name sel: key, message and decoding_error.
KafkaDecode_Silent(ty, sel, key, payload) ==
    [key |-> LossyOrDefault(key), message |-> Text(LossyOrDefault(payload)),
     decoding_error |-> <<>>]

\* match pd.decode(bytes) { Ok(json) => .., Err(_) => .. }
ProtoOutcome(key, bytes, r) ==
    IF r # <<>>
    THEN [key |-> LossyOrDefault(key), message |-> r[1], decoding_error |-> <<>>]
    ELSE [key |-> LossyOrDefault(key), message |-> Text(Lossy(bytes)),
          decoding_error |-> <<"Protobuf decode error">>]

KafkaDecode(ty, sel, key, payload) ==
    IF ty = "protobuf" /\ payload # <<>>
    THEN ProtoOutcome(key, payload[1], ProtoDecode(sel, payload[1]))
    ELSE [key |-> LossyOrDefault(key),
          message |-> Text(decoder_for(ty, <<>>, payload)[2]),
          decoding_error |-> <<>>]

\* The engine of the model reads protobuf with message B selected; a record
\* the broker stamped carries bytes no view of which parses, a record
\* without timestamp an encoded B.
EngineType == "protobuf"

EngineSelection == <<"B">>

PayloadOf(t) == IF t = NotAvailable THEN <<8, 1>> ELSE <<255>>

(***************************************************************************)
(* The source: broker log and rdkafka consumer.                            *)
(***************************************************************************)
High(p) == low[p] + Len(log[p])

\* auto.offset.reset = earliest: a fetch offset outside [low, high] (and the
\* symbolic Offset::Beginning) is replaced by the low watermark.
Reset(off, lo, hi) == IF off = Beginning \/ off < lo \/ off > hi THEN lo ELSE off

EffectiveOf(pos, p) == Reset(pos[p], low[p], High(p))

\* The partitions a poll of a consumer with fetch positions pos can deliver
\* a message of, the message, and the positions after its delivery.
ReadyOf(pos) == {p \in DOMAIN pos : EffectiveOf(pos, p) < High(p)}

MsgOf(pos, p) == [partition |-> p, offset |-> EffectiveOf(pos, p),
                  timestamp |-> log[p][EffectiveOf(pos, p) - low[p] + 1]]

AdvanceOf_Stuck(pos, p) == pos

AdvanceOf(pos, p) == [pos EXCEPT ![p] = EffectiveOf(pos, p) + 1]

\* The consumer of the engine.
Ready == ReadyOf(position)

Msg(p) == MsgOf(position, p)

Advance(p) == AdvanceOf(position, p)

\* ts_ms of a polled message: the raw milliseconds, i64::MAX when unavailable.
TsMs(t) == IF t = NotAvailable THEN I64Max ELSE t

\* id: format!("{}-{}", partition, offset)
Id_OffsetOnly(p, o) == <<"-", o>>

Id(p, o) == <<p, "-", o>>

\* The decoders Kafka::new builds, the same for every configuration of the
\* model: kafka.decode(m.key(), m.payload()) of a record stamped t; the
\* records of the model have no key.
EngineDecode ==
    [t \in Timestamps |->
        KafkaDecode(EngineType, EngineSelection, <<>>, <<PayloadOf(t)>>)]

UiMessage(m) ==
    LET d == decoder[m.timestamp]
    IN  [id |-> Id(m.partition, m.offset), partition |-> m.partition,
         offset |-> m.offset, ts |-> TsMs(m.timestamp), key |-> d.key,
         message |-> d.message, decoding_error |-> d.decoding_error]

EndOf(ends, p) == IF p \in DOMAIN ends THEN ends[p] ELSE I64Max

(***************************************************************************)
(* Pure helpers of the strategies.                                         *)
(***************************************************************************)
Newest(cfg) == cfg.start_from = <<"newest">>

IsAll(cfg) == IF cfg.partition = <<>> THEN TRUE ELSE cfg.partition[1] = "all"

AllDone_Never(parts, done) == FALSE

AllDone(parts, done) == \A p \in parts : p \in done

HasBuffered_Never(bufs) == FALSE

HasBuffered(bufs) == \E p \in DOMAIN bufs : bufs[p] # <<>>

PushBack_Dropped(bufs, p, u) == bufs

PushBack(bufs, p, u) == [bufs EXCEPT ![p] = Append(@, u)]

KeyOf(u) == <<u.ts, u.partition, u.offset>>

KeyLess(a, b) ==
    \/ a[1] < b[1]
    \/ a[1] = b[1] /\ a[2] < b[2]
    \/ a[1] = b[1] /\ a[2] = b[2] /\ a[3] < b[3]

KeyLeq(a, b) == a = b \/ KeyLess(a, b)

HeapMax_Least(h) == CHOOSE k \in BagToSet(h) : \A j \in BagToSet(h) : KeyLeq(k, j)

HeapMax(h) == CHOOSE k \in BagToSet(h) : \A j \in BagToSet(h) : KeyLeq(j, k)

HeapMin_Greatest(h) == CHOOSE k \in BagToSet(h) : \A j \in BagToSet(h) : KeyLeq(j, k)

HeapMin(h) == CHOOSE k \in BagToSet(h) : \A j \in BagToSet(h) : KeyLeq(k, j)

HeapPush_Twice(h, k) == h (+) SetToBag({k}) (+) SetToBag({k})

HeapPush(h, k) == h (+) SetToBag({k})

HeapPop(h, k) == h (-) SetToBag({k})

Front(q) == q[1]

Back_Front(q) == q[1]

Back(q) == q[Len(q)]

PopFront(q) == SubSeq(q, 2, Len(q))

PopBack(q) == SubSeq(q, 1, Len(q) - 1)

\* The batch under construction has reached the limit of the call.
Filled_Late(acc, lim) == Len(acc) > lim

Filled(acc, lim) == Len(acc) >= lim

\* collected.sort_by(|a, b| a.0.cmp(&b.0)): stable insertion by ts.
RECURSIVE InsertByTs(_, _)
InsertByTs(s, u) ==
    IF s = <<>> THEN <<u>>
    ELSE IF u.ts < Back(s).ts THEN Append(InsertByTs(PopBack(s), u), Back(s))
    ELSE Append(s, u)

RECURSIVE SortByTs(_)
SortByTs(s) == IF s = <<>> THEN <<>> ELSE InsertByTs(SortByTs(PopBack(s)), Back(s))

TailHeap(bufs) == SetToBag({KeyOf(Back(bufs[p])) : p \in {q \in DOMAIN bufs : bufs[q] # <<>>}})

HeadHeap(bufs) == SetToBag({KeyOf(Front(bufs[p])) : p \in {q \in DOMAIN bufs : bufs[q] # <<>>}})

\* The emit loop of the newest-first strategies: pop the greatest tail key,
\* pop_back that partition's buffer, push its new tail.  The result is the
\* pair <<buffers, out>> at loop exit.
RECURSIVE EmitTails(_, _, _, _)
EmitTails(bufs, h, acc, lim) ==
    IF Filled(acc, lim) \/ BagToSet(h) = {} THEN <<bufs, acc>>
    ELSE LET k == HeapMax(h)
             p == k[2]
             h1 == HeapPop(h, k)
         IN  IF bufs[p] = <<>> THEN EmitTails(bufs, h1, acc, lim)
             ELSE LET q == PopBack(bufs[p])
                      b1 == [bufs EXCEPT ![p] = q]
                      h2 == IF q = <<>> THEN h1 ELSE HeapPush(h1, KeyOf(Back(q)))
                  IN  EmitTails(b1, h2, Append(acc, Back(bufs[p])), lim)

EmptyBuffers == [p \in TopicPartitions |-> <<>>]

(***************************************************************************)
(* Initial state: AppState::new(), an empty topic.                         *)
(***************************************************************************)
DefaultConfig == [partition |-> <<>>, start_offset |-> <<>>, start_from |-> <<"oldest">>]

Unassigned == [p \in {} |-> 0]

NoPlan == [p \in {} |-> 0]

\* No poll yet: failed is "none", then "all" while every poll of the call
\* returned Some(Err(_)), and "some" once a poll timed out or delivered.
NoPolls == [idle |-> 0, failed |-> "none"]

NoDecode == [fn |-> "none", ty |-> "", sel |-> <<>>, key |-> <<>>, payload |-> <<>>,
             ok |-> TRUE, res |-> KafkaDecode("text", <<>>, <<>>, <<>>)]

\* The threads that call the engine and the commands; none has begun.
ThreadIds == {1, 2}

NoThreads == [t \in ThreadIds |-> [todo |-> <<>>, held |-> <<>>]]

NoProbe == [cfg |-> DefaultConfig, low |-> 0, high |-> 0, start |-> Beginning]

TaskIds == 1..MaxRunners

\* A task slot without a running task.
FreeTask == [st |-> "free", cancelled |-> FALSE, signalled |-> FALSE, tx |-> FALSE,
             parts |-> {}, ends |-> NoPlan, done_parts |-> {}, count |-> 0,
             lim |-> 0, cons |-> 0]

Init ==
    /\ \E l \in LowSet : low = [p \in TopicPartitions |-> l]
    /\ log = [p \in TopicPartitions |-> <<>>]
    /\ position = Unassigned
    /\ configured = FALSE
    /\ config = DefaultConfig
    /\ assigned = FALSE
    /\ end_offsets = NoPlan
    /\ partitions = {}
    /\ done_partitions = {}
    /\ buffers = EmptyBuffers
    /\ pc = "idle"
    /\ limit = 0
    /\ out = <<>>
    /\ idle_loops = 0
    /\ local_idle = 0
    /\ heap = EmptyBag
    /\ pick_p = 0
    /\ starting_offsets = NoPlan
    /\ emitted = <<>>
    /\ batch = <<>>
    /\ result = <<"none", "ok">>
    /\ polled = FALSE
    /\ entry_drained = FALSE
    /\ early = FALSE
    /\ plan_origin = "new"
    /\ load_session = 0
    /\ tasks = [t \in TaskIds |-> FreeTask]
    /\ orphans = [k \in TaskIds |-> Unassigned]
    /\ run_emitted = EmptyBag
    /\ planner_runs = 0
    /\ events = [t \in TaskIds |-> <<>>]
    /\ probe = NoProbe
    /\ poll_stats = NoPolls
    /\ decoded = NoDecode
    /\ decoder = EngineDecode
    /\ threads = NoThreads
    /\ matched = <<>>
    /\ linked = <<>>

\* Runner t is alive / holds the consumer of the current engine.
Live(t) == tasks[t].st # "free"

Attached(t) == Live(t) /\ tasks[t].cons = 0

\* The history of a session is kept for one step past the end of its runner.
Swept == [t \in TaskIds |-> IF Live(t) THEN events[t] ELSE <<>>]

RECURSIVE Total(_, _)
Total(f, S) == IF S = {} THEN 0
               ELSE LET x == CHOOSE y \in S : TRUE IN Len(f[x]) + Total(f, S \ {x})

\* A producer appends one record to a partition.
Produce(p, t) ==
    /\ Total(log, TopicPartitions) < MaxRecords
    /\ log' = [log EXCEPT ![p] = Append(@, t)]
    /\ UNCHANGED <<low, position, configured, config, assigned, end_offsets,
                   partitions, done_partitions, buffers, pc, limit, out,
                   idle_loops, local_idle, heap, pick_p, starting_offsets,
                   emitted, batch, result, polled, entry_drained, early,
                   plan_origin, load_session, tasks, orphans, run_emitted,
                   planner_runs, probe, poll_stats, decoded, decoder, threads, matched, linked>>
    /\ events' = Swept

\* An orphan slot no live runner refers to.
FreeOrphan ==
    CHOOSE k \in TaskIds :
        /\ \A t \in TaskIds : Live(t) => tasks[t].cons # k
        /\ \A j \in TaskIds : (\A t \in TaskIds : Live(t) => tasks[t].cons # j) => k <= j

\* History of the emissions, a bag of entries [cons, id]: drop the entries
\* of consumer c; move the entries of the engine's consumer to orphan k; the
\* records s the engine returned, as entries of orphan k.
Forget(h, c) == [e \in {x \in DOMAIN h : x.cons # c} |-> h[e]]

Relabel(h, k) ==
    [e \in {[x EXCEPT !.cons = IF @ = 0 THEN k ELSE @] : x \in DOMAIN h} |->
        IF e.cons = k THEN h[[e EXCEPT !.cons = 0]] ELSE h[e]]

Labelled(s, k) ==
    [e \in {[cons |-> k, id |-> s[i].id] : i \in 1..Len(s)} |->
        Cardinality({i \in 1..Len(s) : s[i].id = e.id})]

ResetCall ==
    /\ out' = <<>>
    /\ idle_loops' = 0
    /\ local_idle' = 0
    /\ heap' = EmptyBag
    /\ pick_p' = 0

\* AppState::reconfigure_kafka: drop the previous Kafka (and its consumer),
\* then Kafka::new(cfg), which can fail (consumer creation, proto schema).
Reconfigure(cfg, ok) ==
    /\ pc = "idle"
    /\ configured' = ok
    /\ config' = IF ok THEN cfg ELSE DefaultConfig
    /\ position' = Unassigned
    /\ assigned' = FALSE
    /\ end_offsets' = NoPlan
    /\ partitions' = {}
    /\ done_partitions' = {}
    /\ buffers' = EmptyBuffers
    /\ starting_offsets' = NoPlan
    /\ emitted' = <<>>
    /\ batch' = <<>>
    /\ result' = <<"reconfigure", IF ok THEN "ok" ELSE "err">>
    /\ polled' = FALSE
    /\ entry_drained' = FALSE
    /\ early' = FALSE
    /\ plan_origin' = "reconfigure"
    /\ limit' = 0
    /\ tasks' = [t \in TaskIds |->
                    IF Attached(t) THEN [tasks[t] EXCEPT !.cons = FreeOrphan] ELSE tasks[t]]
    /\ orphans' = IF \E t \in TaskIds : Attached(t)
                  THEN [orphans EXCEPT ![FreeOrphan] = position] ELSE orphans
    /\ run_emitted' =
          IF \E t \in TaskIds : Attached(t)
          THEN Relabel(Forget(run_emitted, FreeOrphan), FreeOrphan)
                  (+) Labelled(emitted, FreeOrphan)
          ELSE Forget(run_emitted, 0)
    /\ planner_runs' = 0
    /\ poll_stats' = NoPolls
    /\ events' = Swept
    /\ UNCHANGED <<low, log, pc, out, idle_loops, local_idle, heap, pick_p,
                   load_session, probe, decoded, decoder, threads, matched, linked>>

\* Err("Kafka is not configured".into()): no engine is installed.
NoEngine_Ok(cmd) == <<cmd, "ok">>

NoEngine(cmd) == <<cmd, "not configured">>

\* get_kafka_status
GetKafkaStatus ==
    /\ pc = "idle"
    /\ result' = IF configured THEN <<"get_kafka_status", "ok">>
                 ELSE NoEngine("get_kafka_status")
    /\ events' = Swept
    /\ UNCHANGED <<low, log, position, configured, config, assigned, end_offsets,
                   partitions, done_partitions, buffers, pc, limit, out,
                   idle_loops, local_idle, heap, pick_p, starting_offsets,
                   emitted, batch, polled, entry_drained, early, plan_origin,
                   planner_runs, poll_stats, runVars>>

\* The commands on the engine, apply_filters and consume_next_messages, when
\* the guard of AppState.kafka holds None.
EngineCommands == {"apply_filters", "consume_next_messages"}

NotConfigured(cmd) ==
    /\ pc = "idle"
    /\ ~configured
    /\ result' = NoEngine(cmd)
    /\ events' = Swept
    /\ UNCHANGED <<low, log, position, configured, config, assigned, end_offsets,
                   partitions, done_partitions, buffers, pc, limit, out,
                   idle_loops, local_idle, heap, pick_p, starting_offsets,
                   emitted, batch, polled, entry_drained, early, plan_origin,
                   planner_runs, poll_stats, runVars>>

\* consumer.assign(&empty)?: the assignment of the consumer afterwards.
AssignEmpty_Skipped(pos, ok) == pos

AssignEmpty(pos, ok) == IF ok THEN Unassigned ELSE pos

\* Kafka::apply_filters_mut; ok is the result of consumer.assign(&empty).
\* self.buffers.lock()?.clear()
ClearBuffers_Kept(b) == b

ClearBuffers(b) == EmptyBuffers

ApplyFilters(partition, start_offset, start_from, ok) ==
    /\ pc = "idle"
    /\ configured
    /\ config' = [partition |-> partition, start_offset |-> start_offset,
                  start_from |-> IF start_from # <<>> THEN start_from
                                 ELSE config.start_from]
    /\ end_offsets' = NoPlan
    /\ partitions' = {}
    /\ done_partitions' = {}
    /\ buffers' = ClearBuffers(buffers)
    /\ position' = AssignEmpty(position, ok)
    /\ assigned' = ~ok
    /\ starting_offsets' = NoPlan
    /\ emitted' = <<>>
    /\ batch' = <<>>
    /\ result' = <<"apply_filters", IF ok THEN "ok" ELSE "err">>
    /\ polled' = FALSE
    /\ entry_drained' = FALSE
    /\ early' = FALSE
    /\ plan_origin' = "apply_filters"
    /\ limit' = 0
    /\ run_emitted' = Forget(run_emitted, 0)
    /\ planner_runs' = 0
    /\ poll_stats' = NoPolls
    /\ UNCHANGED <<low, log, configured, pc, out, idle_loops, local_idle, heap,
                   pick_p, load_session, tasks, orphans, probe, decoded, decoder, threads, matched, linked>>
    /\ events' = Swept

(***************************************************************************)
(* The planner, Kafka::ensure_assigned.                                    *)
(***************************************************************************)
\* part_str.parse::<i32>()
ParseOk(s) == s \in {"0", "1"}

ParseI32(s) == IF s = "0" THEN 0 ELSE 1

Numeric(cfg) == cfg.partition # <<>> /\ cfg.partition[1] # "all" /\ cfg.partition[1] # ""

PlanFails(cfg) == Numeric(cfg) /\ ~ParseOk(cfg.partition[1])

PlanPartitions(cfg) ==
    IF Numeric(cfg) THEN {ParseI32(cfg.partition[1])} ELSE TopicPartitions

\* The offset assigned to a partition with watermarks (lo, hi).
StartOffset_Low(cfg, lo, hi) == lo

StartOffset(cfg, lo, hi) ==
    IF Newest(cfg)
    THEN IF hi > BACK_WINDOW THEN hi - BACK_WINDOW ELSE lo
    ELSE IF IsAll(cfg) THEN Beginning
    ELSE IF cfg.start_offset # <<>>
         THEN IF cfg.start_offset[1] < lo THEN lo ELSE cfg.start_offset[1]
         ELSE Beginning

\* self.assigned.swap(true): the flag the caller finds.
AlreadyAssigned_Never == FALSE

AlreadyAssigned == assigned

\* The engine after ensure_assigned: err tells that the call failed, planned
\* that this call went past the flag into the planner.
EnsureAssigned ==
    IF AlreadyAssigned
    THEN [err |-> FALSE, planned |-> FALSE, end_offsets |-> end_offsets, partitions |-> partitions,
          buffers |-> buffers, position |-> position,
          starting_offsets |-> starting_offsets]
    ELSE IF PlanFails(config)
    THEN [err |-> TRUE, planned |-> TRUE, end_offsets |-> end_offsets, partitions |-> partitions,
          buffers |-> buffers, position |-> position,
          starting_offsets |-> starting_offsets]
    ELSE [err |-> FALSE, planned |-> TRUE,
          end_offsets |-> [p \in PlanPartitions(config) |-> High(p)],
          partitions |-> PlanPartitions(config),
          buffers |-> EmptyBuffers,
          position |-> [p \in PlanPartitions(config) |-> StartOffset(config, low[p], High(p))],
          starting_offsets |-> [p \in PlanPartitions(config) |-> StartOffset(config, low[p], High(p))]]

(***************************************************************************)
(* consume_next: entry, early return and dispatch (service.rs), then the   *)
(* polling loops of the strategies.                                        *)
(***************************************************************************)
stepFrame == <<low, log, configured, config, assigned, end_offsets, partitions,
               starting_offsets, entry_drained, plan_origin, load_session,
               tasks, orphans, run_emitted, planner_runs, probe, decoded, decoder, threads, matched, linked>>

\* Ok(out): the call returns batch b and releases the engine.
Finish(b, bufs1, done1, pos1, lim, didPoll, early1) ==
    /\ pc' = "idle"
    /\ batch' = b
    /\ emitted' = emitted \o b
    /\ result' = <<"consume_next", "ok">>
    /\ limit' = lim
    /\ early' = early1
    /\ buffers' = bufs1
    /\ done_partitions' = done1
    /\ position' = pos1
    /\ polled' = didPoll
    /\ ResetCall

\* The call stays in loop at, about to poll again.
Stay(at, bufs1, done1, pos1, out1, idle1, lidle1, heap1, pick1) ==
    /\ pc' = at
    /\ buffers' = bufs1
    /\ done_partitions' = done1
    /\ position' = pos1
    /\ out' = out1
    /\ idle_loops' = idle1
    /\ local_idle' = lidle1
    /\ heap' = heap1
    /\ pick_p' = pick1
    /\ polled' = TRUE
    /\ UNCHANGED <<limit, batch, emitted, result, early>>

\* Newest-first strategies: leave the prefill loop and emit from the tails.
EmitNewest(bufs1, done1, pos1, lim, didPoll) ==
    LET r == EmitTails(bufs1, TailHeap(bufs1), <<>>, lim)
    IN  Finish(r[2], r[1], done1, pos1, lim, didPoll,
               early \/ (r[2] # <<>> /\ ~AllDone(partitions', done1)))

\* Merge-oldest, step 2: the iterations of the merge loop that need no poll.
\* The result says where the call is next: returning, polling because the
\* heap is empty, or polling in the targeted refill of partition pick.
\* erl records that a record was popped while a partition that is not done
\* had no buffered head.
RECURSIVE MergeRun(_, _, _, _, _, _, _, _, _)
MergeRun(bufs, h, done, acc, lim, idle, ends, parts, erl) ==
    IF Filled(acc, lim)
    THEN [at |-> "return", bufs |-> bufs, heap |-> h, done |-> done, out |-> acc,
          pick |-> 0, early |-> erl]
    ELSE IF BagToSet(h) = {}
    THEN [at |-> IF idle >= IDLE_LIMIT_BATCH THEN "return" ELSE "merge_poll",
          bufs |-> bufs, heap |-> h, done |-> done, out |-> acc, pick |-> 0,
          early |-> erl]
    ELSE LET k == HeapMin(h)
             p == k[2]
             h1 == HeapPop(h, k)
         IN  IF bufs[p] = <<>>
             THEN MergeRun(bufs, h1, done, acc, lim, idle, ends, parts, erl)
             ELSE LET u == Front(bufs[p])
                      q == PopFront(bufs[p])
                      b1 == [bufs EXCEPT ![p] = q]
                      d1 == IF u.offset >= EndOf(ends, p) - 1 THEN done \cup {p} ELSE done
                      acc1 == Append(acc, u)
                      erl1 == erl \/ \E x \in parts \ done : bufs[x] = <<>>
                  IN  IF q # <<>>
                      THEN MergeRun(b1, HeapPush(h1, KeyOf(Front(q))), d1, acc1, lim,
                                    idle, ends, parts, erl1)
                      ELSE IF p \in d1
                      THEN MergeRun(b1, h1, d1, acc1, lim, idle, ends, parts, erl1)
                      ELSE [at |-> "merge_refill", bufs |-> b1, heap |-> h1,
                            done |-> d1, out |-> acc1, pick |-> p, early |-> erl1]

\* Continue the merge loop from the given locals.
MergeContinue(bufs1, h1, done1, out1, lim, idle1, pos1, didPoll) ==
    LET r == MergeRun(bufs1, h1, done1, out1, lim, idle1, end_offsets',
                      partitions', early)
    IN  IF r.at = "return"
        THEN Finish(r.out, r.bufs, r.done, pos1, lim, didPoll, r.early)
        ELSE /\ pc' = r.at
             /\ buffers' = r.bufs
             /\ done_partitions' = r.done
             /\ position' = pos1
             /\ limit' = lim
             /\ out' = r.out
             /\ idle_loops' = idle1
             /\ local_idle' = 0
             /\ heap' = r.heap
             /\ pick_p' = r.pick
             /\ polled' = didPoll
             /\ early' = r.early
             /\ UNCHANGED <<batch, emitted, result>>

\* Merge-oldest, step 1 loop head: some active partition has no buffered head.
NeedHeads(parts, done, bufs) == \E p \in parts \ done : bufs[p] = <<>>

\* Enter the first polling loop of a strategy.
Enter(at, bufs1, pos1, lim) ==
    /\ pc' = at
    /\ buffers' = bufs1
    /\ position' = pos1
    /\ limit' = lim
    /\ out' = <<>>
    /\ idle_loops' = 0
    /\ local_idle' = 0
    /\ heap' = EmptyBag
    /\ pick_p' = 0
    /\ polled' = FALSE
    /\ UNCHANGED <<done_partitions, batch, emitted, result, early>>

Dispatch(e, lim) ==
    LET seq == ~IsAll(config) \/ Cardinality(e.partitions) <= 1
    IN  IF Newest(config)
        THEN IF AllDone(e.partitions, done_partitions)
             THEN EmitNewest(e.buffers, done_partitions, e.position, lim, FALSE)
             ELSE Enter(IF seq THEN "seq_newest" ELSE "merge_newest",
                        e.buffers, e.position, lim)
        ELSE IF seq
        THEN Enter("seq_oldest", e.buffers, e.position, lim)
        ELSE IF NeedHeads(e.partitions, done_partitions, e.buffers)
        THEN Enter("merge_fill", e.buffers, e.position, lim)
        ELSE MergeContinue(e.buffers, HeadHeap(e.buffers), done_partitions, <<>>,
                           lim, 0, e.position, FALSE)

ConsumeNext(lim) ==
    LET e == EnsureAssigned
    IN  /\ pc = "idle"
        /\ configured
        /\ assigned' = TRUE
        /\ end_offsets' = e.end_offsets
        /\ partitions' = e.partitions
        /\ starting_offsets' = e.starting_offsets
        /\ UNCHANGED <<low, log, configured, config, plan_origin, runVars>>
        /\ events' = Swept
        /\ planner_runs' = IF e.planned THEN planner_runs + 1 ELSE planner_runs
        /\ poll_stats' = NoPolls
        /\ entry_drained' = (~e.err /\ AllDone(e.partitions, done_partitions)
                                    /\ ~HasBuffered(e.buffers))
        /\ IF e.err
           THEN /\ result' = <<"consume_next", "err">>
                /\ batch' = <<>>
                /\ polled' = FALSE
                /\ limit' = lim
                /\ UNCHANGED <<buffers, position, done_partitions, pc, out,
                               idle_loops, local_idle, heap, pick_p, emitted, early>>
           ELSE IF AllDone(e.partitions, done_partitions) /\ ~HasBuffered(e.buffers)
           THEN /\ result' = <<"consume_next", "ok">>
                /\ batch' = <<>>
                /\ polled' = FALSE
                /\ limit' = lim
                /\ buffers' = e.buffers
                /\ position' = e.position
                /\ UNCHANGED <<done_partitions, pc, out, idle_loops, local_idle,
                               heap, pick_p, emitted, early>>
           ELSE Dispatch(e, lim)

(***************************************************************************)
(* The polling loops.  Every action is one poll of the source and the code *)
(* up to the next poll or to the return of the call.                       *)
(***************************************************************************)
\* Some(Err(_)) | None => idle += 1, for the k polls left in the budget;
\* err tells that they all returned Some(Err(_)).
IdlePolls(k, err) ==
    poll_stats' = [idle |-> poll_stats.idle + k,
                   failed |-> IF err /\ poll_stats.failed # "some" THEN "all" ELSE "some"]

\* Some(Ok(m))
Delivered == poll_stats' = [poll_stats EXCEPT !.failed = "some"]

\* Sequential, oldest first (sequential.rs 133-192).
SeqOldestPoll ==
    /\ pc = "seq_oldest"
    /\ UNCHANGED stepFrame
    /\ events' = Swept
    /\ \/ /\ \E err \in BOOLEAN : IdlePolls(IDLE_LIMIT_BATCH - idle_loops, err)
          /\ Finish(SortByTs(out), buffers, done_partitions, position, limit, TRUE, early)
       \/ \E p \in Ready :
            LET m == Msg(p)
                end == EndOf(end_offsets, p)
                inWin == m.offset < end
                done1 == IF m.offset >= end - 1 THEN done_partitions \cup {p}
                         ELSE done_partitions
                out1 == IF inWin THEN Append(out, UiMessage(m)) ELSE out
                brk == (m.offset >= end - 1) /\ AllDone(partitions, done1)
            IN  /\ Delivered
                /\ IF brk \/ Filled(out1, limit)
                   THEN Finish(SortByTs(out1), buffers, done1, Advance(p), limit, TRUE, early)
                   ELSE Stay("seq_oldest", buffers, done1, Advance(p), out1,
                             idle_loops, 0, heap, 0)

\* Prefill loop of the newest-first strategies (sequential.rs 22-85 with a
\* budget of 20 idle polls, merge_newest.rs 17-64 with a budget of 40).
NewestPoll(at, budget) ==
    /\ pc = at
    /\ UNCHANGED stepFrame
    /\ events' = Swept
    /\ \/ /\ \E err \in BOOLEAN : IdlePolls(budget - idle_loops, err)
          /\ EmitNewest(buffers, done_partitions, position, limit, TRUE)
       \/ \E p \in Ready :
            LET m == Msg(p)
                end == EndOf(end_offsets, p)
                done1 == IF m.offset >= end - 1 THEN done_partitions \cup {p}
                         ELSE done_partitions
                bufs1 == IF m.offset < end THEN PushBack(buffers, p, UiMessage(m))
                         ELSE buffers
            IN  /\ Delivered
                /\ IF AllDone(partitions, done1)
                   THEN EmitNewest(bufs1, done1, Advance(p), limit, TRUE)
                   ELSE Stay(at, bufs1, done1, Advance(p), out, idle_loops, 0, heap, 0)

SeqNewestPoll_Drain == NewestPoll("seq_newest", IDLE_LIMIT_DRAIN)

SeqNewestPoll == NewestPoll("seq_newest", IDLE_LIMIT_BATCH)

MergeNewestPoll == NewestPoll("merge_newest", IDLE_LIMIT_DRAIN)

\* Merge-oldest, step 1: fill the heads (reader/mod.rs 304-348).
MergeFillPoll ==
    /\ pc = "merge_fill"
    /\ UNCHANGED stepFrame
    /\ events' = Swept
    /\ \/ /\ \E err \in BOOLEAN : IdlePolls(IDLE_LIMIT_FILL - idle_loops, err)
          /\ MergeContinue(buffers, HeadHeap(buffers), done_partitions, out,
                           limit, IDLE_LIMIT_FILL, position, TRUE)
       \/ \E p \in Ready :
            LET m == Msg(p)
                end == EndOf(end_offsets, p)
                done1 == IF m.offset >= end - 1 THEN done_partitions \cup {p}
                         ELSE done_partitions
                bufs1 == IF m.offset < end THEN PushBack(buffers, p, UiMessage(m))
                         ELSE buffers
            IN  /\ Delivered
                /\ IF NeedHeads(partitions, done1, bufs1)
                   THEN Stay("merge_fill", bufs1, done1, Advance(p), out, idle_loops,
                             0, heap, 0)
                   ELSE MergeContinue(bufs1, HeadHeap(bufs1), done1, out, limit,
                                      idle_loops, Advance(p), TRUE)

\* Merge-oldest, step 2 with an empty heap: poll for more (reader/mod.rs 363-396).
MergePoll ==
    /\ pc = "merge_poll"
    /\ UNCHANGED stepFrame
    /\ events' = Swept
    /\ \/ /\ \E err \in BOOLEAN : IdlePolls(IDLE_LIMIT_BATCH - idle_loops, err)
          /\ MergeContinue(buffers, heap, done_partitions, out, limit,
                           IDLE_LIMIT_BATCH, position, TRUE)
       \/ \E p \in Ready :
            LET m == Msg(p)
                end == EndOf(end_offsets, p)
                inWin == m.offset < end
                done1 == IF inWin THEN done_partitions ELSE done_partitions \cup {p}
                bufs1 == IF inWin THEN PushBack(buffers, p, UiMessage(m)) ELSE buffers
                heap1 == IF inWin /\ buffers[p] = <<>>
                         THEN HeapPush(heap, KeyOf(UiMessage(m))) ELSE heap
            IN  /\ Delivered
                /\ MergeContinue(bufs1, heap1, done1, out, limit, idle_loops,
                                 Advance(p), TRUE)

\* Merge-oldest, targeted refill of pick_p (reader/mod.rs 431-472).
MergeRefillPoll ==
    /\ pc = "merge_refill"
    /\ UNCHANGED stepFrame
    /\ events' = Swept
    /\ \/ /\ \E err \in BOOLEAN : IdlePolls(IDLE_LIMIT_REFILL - local_idle, err)
          /\ MergeContinue(buffers, heap, done_partitions, out, limit,
                           idle_loops, position, TRUE)
       \/ \E p \in Ready :
            LET m == Msg(p)
                end == EndOf(end_offsets, p)
                inWin == m.offset < end
                done1 == IF inWin THEN done_partitions ELSE done_partitions \cup {p}
                bufs1 == IF inWin THEN PushBack(buffers, p, UiMessage(m)) ELSE buffers
                heap1 == IF inWin /\ buffers[p] = <<>>
                         THEN HeapPush(heap, KeyOf(UiMessage(m))) ELSE heap
            IN  /\ Delivered
                /\ IF (inWin /\ p = pick_p) \/ pick_p \in done1 \/ bufs1[pick_p] # <<>>
                   THEN MergeContinue(bufs1, heap1, done1, out, limit, idle_loops,
                                      Advance(p), TRUE)
                   ELSE Stay("merge_refill", bufs1, done1, Advance(p), out,
                             idle_loops, local_idle, heap1, pick_p)

(***************************************************************************)
(* Filtered load (kafka_adapter.rs): start_filtered_load plans through the *)
(* engine, snapshots partitions, end offsets and the consumer, and spawns  *)
(* a runner that polls that consumer on its own.                           *)
(***************************************************************************)
engineFrame == <<low, log, pc, limit, out, idle_loops, local_idle, heap, pick_p,
                 done_partitions, emitted, batch, polled, entry_drained, early,
                 plan_origin, config, probe, poll_stats, decoded, decoder, threads, matched, linked>>

planFrame == <<configured, assigned, end_offsets, partitions, buffers,
               starting_offsets, planner_runs>>

\* The positions of the consumer runner t holds.
PositionOf(t) == IF tasks[t].cons = 0 THEN position ELSE orphans[tasks[t].cons]

\* An event on the window: its name and the number it carries (the limit of
\* load_started, the emitted count of load_done).  The history also notes a
\* cancel signal that reaches a looping runner, and the polls after it.
Ev(name, n) == [name |-> name, n |-> n]

Looping(tk) == tk.st \in {"check", "poll"}

\* prev.cancel_tx.send(()) on the session of task tk: the receiver of the
\* runner gets the signal only if it is subscribed already.
Signal_Dropped(tk) == tk

Signal(tk) == [tk EXCEPT !.signalled = TRUE, !.cancelled = @ \/ Looping(tk)]

\* sess_guard.take() followed by the send: the tasks and the history after.
Taken ==
    [u \in TaskIds |-> IF u = load_session /\ Live(u) THEN Signal(tasks[u])
                       ELSE tasks[u]]

Noted ==
    [u \in TaskIds |-> IF u = load_session /\ Looping(tasks[u])
                       THEN Append(events[u], Ev("cancel", 0)) ELSE Swept[u]]

\* Every Sender of the channel of runner t is dropped: the tx of the
\* starting command and the one of the session in the slot.
Closed(t) == ~tasks[t].tx /\ load_session # t

\* rx.try_recv() is Ok(_) or Err(Closed).
CancelSeen_Never(tk, closed) == FALSE

CancelSeen(tk, closed) == tk.cancelled \/ closed

\* emitted >= limit
LimitReached_Late(n, lim) == n > lim

LimitReached(n, lim) == n >= lim

\* Runner t has left its loop: the slot is free, and a consumer no runner
\* holds any more is dropped (the history keeps its emissions until the
\* orphan slot is taken again).
Exit(t) ==
    LET c == tasks[t].cons
        last == c # 0 /\ \A u \in TaskIds \ {t} : Live(u) => tasks[u].cons # c
    IN  /\ tasks' = [tasks EXCEPT ![t] = FreeTask]
        /\ orphans' = IF last THEN [orphans EXCEPT ![c] = Unassigned] ELSE orphans
        /\ UNCHANGED run_emitted

\* start_filtered_load up to drop(sess_guard): plan, snapshot, initial done
\* set, cancel of the previous session, installation of the new one.
StartFilteredLoad(lim) ==
    LET e == EnsureAssigned
        t == CHOOSE u \in TaskIds : ~Live(u) /\ \A v \in TaskIds : ~Live(v) => u <= v
        seed == {p \in e.partitions : low[p] >= EndOf(e.end_offsets, p)}
    IN  /\ pc = "idle"
        /\ \E u \in TaskIds : ~Live(u)
        /\ UNCHANGED <<engineFrame, orphans, run_emitted>>
        /\ IF ~configured
           THEN /\ result' = NoEngine("start_filtered_load")
                /\ UNCHANGED <<planFrame, position, load_session, tasks>>
                /\ events' = Swept
           ELSE /\ assigned' = TRUE
                /\ planner_runs' = IF e.planned THEN planner_runs + 1
                                   ELSE planner_runs
                /\ end_offsets' = e.end_offsets
                /\ partitions' = e.partitions
                /\ buffers' = e.buffers
                /\ position' = e.position
                /\ starting_offsets' = e.starting_offsets
                /\ UNCHANGED configured
                /\ IF e.err
                   THEN /\ result' = <<"start_filtered_load", "err">>
                        /\ UNCHANGED <<load_session, tasks>>
                        /\ events' = Swept
                   ELSE /\ result' = <<"start_filtered_load", "ok">>
                        /\ load_session' = t
                        /\ tasks' = [Taken EXCEPT ![t] =
                                        [st |-> "starting", cancelled |-> FALSE,
                                         signalled |-> FALSE, tx |-> TRUE,
                                         parts |-> e.partitions, ends |-> e.end_offsets,
                                         done_parts |-> seed, count |-> 0, lim |-> lim,
                                         cons |-> 0]]
                        /\ events' = [Noted EXCEPT ![t] = <<>>]

\* start_filtered_load from the load_started event to tokio::spawn: the
\* receiver of the runner is subscribed here.
SpawnRunner(t) ==
    /\ tasks[t].st = "starting"
    /\ tasks' = [tasks EXCEPT ![t].st = "check"]
    /\ events' = [Swept EXCEPT ![t] = Append(@, Ev("load_started", tasks[t].lim))]
    /\ UNCHANGED <<engineFrame, planFrame, position, load_session, result, orphans,
                   run_emitted>>

\* start_filtered_load returns: its tx is dropped.
StartReturn(t) ==
    /\ Looping(tasks[t]) /\ tasks[t].tx
    /\ tasks' = [tasks EXCEPT ![t].tx = FALSE]
    /\ events' = Swept
    /\ UNCHANGED <<engineFrame, planFrame, position, load_session, result, orphans,
                   run_emitted>>

CancelFilteredLoad ==
    /\ load_session' = 0
    /\ tasks' = Taken
    /\ events' = Noted
    /\ result' = <<"cancel_filtered_load", "ok">>
    /\ UNCHANGED <<engineFrame, planFrame, position, orphans, run_emitted>>

\* Head of the runner's loop: the cancellation check and the all-done check.
RunnerCheck(t) ==
    /\ tasks[t].st = "check"
    /\ IF CancelSeen(tasks[t], Closed(t))
       THEN /\ Exit(t)
            /\ events' = [Swept EXCEPT ![t] = Append(@, Ev("load_cancelled", 0))]
       ELSE IF tasks[t].parts # {} /\ tasks[t].parts \subseteq tasks[t].done_parts
       THEN /\ Exit(t)
            /\ events' = [Swept EXCEPT ![t] = Append(@, Ev("load_done", tasks[t].count))]
       ELSE /\ tasks' = [tasks EXCEPT ![t].st = "poll"]
            /\ events' = Swept
            /\ UNCHANGED <<orphans, run_emitted>>
    /\ UNCHANGED <<engineFrame, planFrame, position, load_session, result>>

\* The history of runner t with the poll it makes now.
Polled(t) ==
    IF \E i \in 1..Len(events[t]) : events[t][i].name = "cancel"
    THEN Append(events[t], Ev("poll", 0)) ELSE events[t]

\* A poll of the runner that times out or fails.
RunnerIdle(t) ==
    /\ tasks[t].st = "poll"
    /\ tasks' = [tasks EXCEPT ![t].st = "check"]
    /\ events' = [Swept EXCEPT ![t] = Polled(t)]
    /\ UNCHANGED <<engineFrame, planFrame, position, load_session, result, orphans,
                   run_emitted>>

\* A poll of the runner that returns a record, with what follows it up to
\* the next loop head.  pass is the verdict of the key and message filters.
RunnerRecv(t) ==
    /\ tasks[t].st = "poll"
    /\ UNCHANGED <<engineFrame, planFrame, load_session, result>>
    /\ \E p \in ReadyOf(PositionOf(t)), pass \in BOOLEAN :
            LET m == MsgOf(PositionOf(t), p)
                c == tasks[t].cons
                pos1 == AdvanceOf(PositionOf(t), p)
                end == EndOf(tasks[t].ends, p)
                emit == [cons |-> c, id |-> Id(p, m.offset)]
                count1 == tasks[t].count + 1
                done1 == IF m.offset >= end - 1 THEN tasks[t].done_parts \cup {p}
                         ELSE tasks[t].done_parts
            IN  /\ position' = IF c = 0 THEN pos1 ELSE position
                /\ IF m.offset >= end
                   THEN /\ tasks' = [tasks EXCEPT ![t].st = "check",
                                                  ![t].done_parts = tasks[t].done_parts \cup {p}]
                        /\ orphans' = IF c = 0 THEN orphans
                                      ELSE [orphans EXCEPT ![c] = pos1]
                        /\ events' = [Swept EXCEPT ![t] = Polled(t)]
                        /\ UNCHANGED run_emitted
                   ELSE IF pass /\ LimitReached(count1, tasks[t].lim)
                   THEN LET last == c # 0 /\ \A u \in TaskIds \ {t} :
                                                Live(u) => tasks[u].cons # c
                        IN  /\ tasks' = [tasks EXCEPT ![t] = FreeTask]
                            /\ orphans' = IF c = 0 THEN orphans
                                          ELSE IF last
                                          THEN [orphans EXCEPT ![c] = Unassigned]
                                          ELSE [orphans EXCEPT ![c] = pos1]
                            /\ run_emitted' = run_emitted (+) SetToBag({emit})
                            /\ events' = [Swept EXCEPT ![t] =
                                             Polled(t) \o <<Ev("message", 0),
                                                            Ev("load_done", count1)>>]
                   ELSE /\ tasks' = [tasks EXCEPT
                                        ![t].st = "check",
                                        ![t].done_parts = done1,
                                        ![t].count = IF pass THEN @ + 1 ELSE @]
                        /\ orphans' = IF c = 0 THEN orphans
                                      ELSE [orphans EXCEPT ![c] = pos1]
                        /\ run_emitted' = IF pass THEN run_emitted (+) SetToBag({emit})
                                          ELSE run_emitted
                        /\ events' = [Swept EXCEPT ![t] =
                                         IF pass THEN Polled(t) \o <<Ev("message", 0)>>
                                         ELSE Polled(t)]

RunnerPoll(t) == RunnerIdle(t) \/ RunnerRecv(t)

Next ==
    \/ \E p \in TopicPartitions, t \in Timestamps : Produce(p, t)
    \/ \E sel \in ConfigSelectors, sf \in ConfigStartFroms :
          Reconfigure([partition |-> sel, start_offset |-> <<>>, start_from |-> sf], TRUE)
    \/ Reconfigure(DefaultConfig, FALSE)
    \/ \E a \in FilterArgs, ok \in BOOLEAN : ApplyFilters(a[1], a[2], a[3], ok)
    \/ \E lim \in Limits : ConsumeNext(lim)
    \/ SeqOldestPoll
    \/ SeqNewestPoll
    \/ MergeNewestPoll
    \/ MergeFillPoll
    \/ MergePoll
    \/ MergeRefillPoll

Spec == Init /\ [][Next]_vars

\* A consume_next call runs on its thread to its return: the loop it is in
\* keeps polling.
FairSpec ==
    /\ Spec
    /\ WF_vars(SeqOldestPoll) /\ WF_vars(SeqNewestPoll) /\ WF_vars(MergeNewestPoll)
    /\ WF_vars(MergeFillPoll) /\ WF_vars(MergePoll) /\ WF_vars(MergeRefillPoll)

(***************************************************************************)
(* Merge-oldest alone, on a longer log: every partition selected, oldest   *)
(* first, so that a buffer behind the heap holds several records.          *)
(***************************************************************************)
ProduceMany(p, t) ==
    /\ Total(log, TopicPartitions) < MergeRecords
    /\ log' = [log EXCEPT ![p] = Append(@, t)]
    /\ UNCHANGED <<low, position, configured, config, assigned, end_offsets,
                   partitions, done_partitions, buffers, pc, limit, out,
                   idle_loops, local_idle, heap, pick_p, starting_offsets,
                   emitted, batch, result, polled, entry_drained, early,
                   plan_origin, load_session, tasks, orphans, run_emitted,
                   planner_runs, probe, poll_stats, decoded, decoder, threads, matched, linked>>
    /\ events' = Swept

NextMerge ==
    \/ \E p \in TopicPartitions, t \in Timestamps : ProduceMany(p, t)
    \/ Reconfigure([partition |-> <<"all">>, start_offset |-> <<>>,
                    start_from |-> <<"oldest">>], TRUE)
    \/ \E lim \in 1..MergeLimit : ConsumeNext(lim)
    \/ MergeFillPoll
    \/ MergePoll
    \/ MergeRefillPoll

SpecMerge == Init /\ [][NextMerge]_vars

(***************************************************************************)
(* The engine together with the filtered load.                             *)
(***************************************************************************)
LoadFilterArgs ==
    { <<<<"all">>, <<>>, <<"oldest">>>>, <<<<"all">>, <<>>, <<"newest">>>> }

\* No start_filtered_load command is between its installation of the session
\* and its return.
Settled == \A t \in TaskIds : tasks[t].st # "starting" /\ ~tasks[t].tx

\* One engine, configured once: its plans, and the runners started on them.
\* A start_filtered_load command waits for the runner before it to stop and
\* runs to its return before anything else moves; SpecSession below has the
\* commands and the runners in every interleaving.
NextLoad ==
    \/ \E t \in TaskIds : SpawnRunner(t)
    \/ \E t \in TaskIds : StartReturn(t)
    \/ /\ Settled
       /\ \/ \E p \in TopicPartitions : Produce(p, 1)
          \/ /\ ~configured
             /\ Reconfigure([partition |-> <<"all">>, start_offset |-> <<>>,
                             start_from |-> <<"oldest">>], TRUE)
          \/ \E a \in LoadFilterArgs : ApplyFilters(a[1], a[2], a[3], TRUE)
          \/ \E lim \in Limits : ConsumeNext(lim)
          \/ MergeNewestPoll
          \/ MergeFillPoll
          \/ MergePoll
          \/ MergeRefillPoll
          \/ (\A t \in TaskIds : ~Live(t)) /\ StartFilteredLoad(MaxLimit)
          \/ CancelFilteredLoad
          \/ \E t \in TaskIds : RunnerCheck(t)
          \/ \E t \in TaskIds : RunnerPoll(t)

SpecLoad == Init /\ [][NextLoad]_vars

(***************************************************************************)
(* The load sessions: the commands of the UI in any order, any number of   *)
(* times, and the runner they start; a load is started when no runner is   *)
(* left from the load before.  The engine is passive (no consume_next).    *)
(***************************************************************************)
SessionFilterArgs ==
    { <<<<"all">>, <<>>, <<"oldest">>>>, <<<<"0">>, <<2>>, <<"oldest">>>> }

\* Partition 0 is the one written to; partition 1 stays empty.
NextSession ==
    \/ Produce(0, 1)
    \/ Reconfigure([partition |-> <<"all">>, start_offset |-> <<>>,
                    start_from |-> <<"oldest">>], TRUE)
    \/ \E a \in SessionFilterArgs : ApplyFilters(a[1], a[2], a[3], TRUE)
    \/ (\A t \in TaskIds : ~Live(t)) /\ \E lim \in Limits : StartFilteredLoad(lim)
    \/ \E t \in TaskIds : SpawnRunner(t)
    \/ \E t \in TaskIds : StartReturn(t)
    \/ CancelFilteredLoad
    \/ \E t \in TaskIds : RunnerCheck(t)
    \/ \E t \in TaskIds : RunnerIdle(t)
    \/ \E t \in TaskIds : RunnerRecv(t)

SpecSession == Init /\ [][NextSession]_vars

\* The runtime schedules every spawned task and every command in progress;
\* a record that is ready is delivered by some poll if the runner keeps
\* polling.
FairSpecSession ==
    /\ SpecSession
    /\ \A t \in TaskIds :
          /\ WF_vars(SpawnRunner(t))
          /\ WF_vars(StartReturn(t))
          /\ WF_vars(RunnerCheck(t))
          /\ WF_vars(RunnerIdle(t) \/ RunnerRecv(t))
          /\ SF_vars(RunnerRecv(t))

(***************************************************************************)
(* Overlapping loads: start_filtered_load and cancel_filtered_load at any  *)
(* moment, also while a command or a runner of an earlier load is still    *)
(* under way.  One configuration, one plan.                                *)
(***************************************************************************)
NextOverlap ==
    \/ Produce(0, 1)
    \/ /\ ~configured
       /\ Reconfigure([partition |-> <<"all">>, start_offset |-> <<>>,
                       start_from |-> <<"oldest">>], TRUE)
    \/ StartFilteredLoad(MaxLimit)
    \/ \E t \in TaskIds : SpawnRunner(t)
    \/ \E t \in TaskIds : StartReturn(t)
    \/ CancelFilteredLoad
    \/ \E t \in TaskIds : RunnerCheck(t)
    \/ \E t \in TaskIds : RunnerIdle(t)
    \/ \E t \in TaskIds : RunnerRecv(t)

SpecOverlap == Init /\ [][NextOverlap]_vars

(***************************************************************************)
(* The commands with and without an engine: the load sessions above, a     *)
(* reconfigure that fails, and the commands that find no engine installed. *)
(***************************************************************************)
NextCommands ==
    \/ NextSession
    \/ Reconfigure(DefaultConfig, FALSE)
    \/ GetKafkaStatus
    \/ \E cmd \in EngineCommands : NotConfigured(cmd)

SpecCommands == Init /\ [][NextCommands]_vars

(***************************************************************************)
(* The planner alone: the offset it assigns to a partition, for watermarks *)
(* on both sides of BACK_WINDOW and for every selector and start_from.     *)
(***************************************************************************)
Watermarks ==
    {0, 1, 2, 1999, 2000, 2001, 2002, 3000, 3999, 4000, 4001, 5000, 6000, 7001}

PlannerConfigs ==
    { [partition |-> a[1], start_offset |-> a[2],
       start_from |-> IF a[3] = <<>> THEN <<"oldest">> ELSE a[3]] : a \in FilterArgs }

Probe(cfg, lo, hi) ==
    /\ lo <= hi
    /\ probe' = [cfg |-> cfg, low |-> lo, high |-> hi,
                 start |-> StartOffset(cfg, lo, hi)]
    /\ UNCHANGED <<low, log, position, configured, config, assigned, end_offsets,
                   partitions, done_partitions, buffers, pc, limit, out,
                   idle_loops, local_idle, heap, pick_p, starting_offsets,
                   emitted, batch, result, polled, entry_drained, early,
                   plan_origin, load_session, tasks, orphans, run_emitted,
                   planner_runs, events, poll_stats, decoded, decoder, threads, matched, linked>>

NextPlanner ==
    \E cfg \in PlannerConfigs, lo \in Watermarks, hi \in Watermarks : Probe(cfg, lo, hi)

SpecPlanner == Init /\ [][NextPlanner]_vars

(***************************************************************************)
(* The decoders alone: one input of a bounded set is decoded.               *)
(***************************************************************************)
MaxText == 2
MaxPayload == 6

TextInputs == Optional(Strings(TextBytes, MaxText))

engineVars == <<low, log, position, configured, config, assigned, end_offsets,
                partitions, done_partitions, buffers, pc, limit, out,
                idle_loops, local_idle, heap, pick_p, starting_offsets,
                emitted, batch, result, polled, entry_drained, early,
                plan_origin, load_session, tasks, orphans, run_emitted,
                planner_runs, events, poll_stats, probe, decoder>>

\* MessageDecoder::decode of decoder_for(ty)
DecoderDecode(ty, key, payload) ==
    LET r == decoder_for(ty, key, payload)
    IN  /\ decoded' = [fn |-> "decoder", ty |-> ty, sel |-> <<>>, key |-> key,
                       payload |-> payload, ok |-> TRUE,
                       res |-> [key |-> r[1], message |-> Text(r[2]),
                                decoding_error |-> <<>>]]
        /\ UNCHANGED <<engineVars, threads, matched, linked>>

\* ProtoDecoder::decode: the call on record, r its outcome.
ProtoCall(sel, payload, r) ==
    [fn |-> "proto", ty |-> "protobuf", sel |-> sel, key |-> <<>>,
     payload |-> <<payload>>, ok |-> r # <<>>,
     res |-> [key |-> <<>>,
              message |-> IF r # <<>> THEN r[1] ELSE Text(<<>>),
              decoding_error |-> <<>>]]

ProtoDecoderDecode(sel, payload) ==
    /\ decoded' = ProtoCall(sel, payload, ProtoDecode(sel, payload))
    /\ UNCHANGED <<engineVars, threads, matched, linked>>

\* One input is decoded.
NextDecode ==
    /\ decoded = NoDecode
    /\ \/ \E ty \in MessageTypes, key \in TextInputs, payload \in TextInputs :
              DecoderDecode(ty, key, payload)
       \/ \E sel \in Selections, payload \in Strings(WireBytes, MaxPayload) :
              ProtoDecoderDecode(sel, payload)

SpecDecode == Init /\ [][NextDecode]_vars

(***************************************************************************)
(* The filters of the runner alone (kafka_adapter.rs 304-331): a key, a    *)
(* decoded value and the filters of a load are given, the verdict is the   *)
(* value of pass when the runner decides to emit.  Strings are sequences   *)
(* of one-character strings.                                               *)
(***************************************************************************)
T_true == <<"t", "r", "u", "e">>

T_false == <<"f", "a", "l", "s", "e">>

T_null == <<"n", "u", "l", "l">>

T_eq == <<"=", "=">>

UpperCase == {"A", "B", "E", "R", "T", "U"}

\* char::to_lowercase
LowerChar_Identity(c) == c

LowerChar(c) ==
    CASE c = "A" -> "a" [] c = "B" -> "b" [] c = "E" -> "e"
      [] c = "R" -> "r" [] c = "T" -> "t" [] c = "U" -> "u"
      [] OTHER -> c

\* str::to_lowercase
ToLowercase(s) == [i \in 1..Len(s) |-> LowerChar(s[i])]

\* s[i..] starts with lit (i counts from 1).
StartsAt(s, i, lit) ==
    i + Len(lit) - 1 <= Len(s) /\ SubSeq(s, i, i + Len(lit) - 1) = lit

\* str::contains
Contains(hay, needle) == \E i \in 1..(Len(hay) + 1) : StartsAt(hay, i, needle)

\* str::find: the first index of pat in s, 0 for None.
Find(s, pat) ==
    IF Contains(s, pat)
    THEN CHOOSE i \in 1..(Len(s) + 1) :
            StartsAt(s, i, pat) /\ \A j \in 1..(i - 1) : ~StartsAt(s, j, pat)
    ELSE 0

RECURSIVE TrimStart(_)
TrimStart(s) == IF s # <<>> /\ s[1] = " " THEN TrimStart(Tail(s)) ELSE s

RECURSIVE TrimEnd(_)
TrimEnd(s) ==
    IF s # <<>> /\ s[Len(s)] = " " THEN TrimEnd(SubSeq(s, 1, Len(s) - 1)) ELSE s

\* str::trim
Trim(s) == TrimEnd(TrimStart(s))

\* str::trim_start_matches("==")
RECURSIVE TrimStartMatches(_, _)
TrimStartMatches(s, pat) ==
    IF StartsAt(s, 1, pat) THEN TrimStartMatches(SubSeq(s, Len(pat) + 1, Len(s)), pat)
    ELSE s

\* serde_json::Value: k is the variant, v what it holds (an object holds the
\* map from its keys, the last member of a key winning).
JNull == [k |-> "null", v |-> <<>>]

JBool(b) == [k |-> "bool", v |-> b]

JNum(n) == [k |-> "num", v |-> n]

JStr(s) == [k |-> "str", v |-> s]

JArr(a) == [k |-> "arr", v |-> a]

JObj(m) == [k |-> "obj", v |-> m]

NoMembers == [x \in {} |-> JNull]

\* impl PartialEq for Value
RECURSIVE JsonEq(_, _)
JsonEq(a, b) ==
    /\ a.k = b.k
    /\ CASE a.k = "arr" ->
              /\ Len(a.v) = Len(b.v)
              /\ \A i \in 1..Len(a.v) : JsonEq(a.v[i], b.v[i])
         [] a.k = "obj" ->
              /\ DOMAIN a.v = DOMAIN b.v
              /\ \A x \in DOMAIN a.v : JsonEq(a.v[x], b.v[x])
         [] OTHER -> a.v = b.v

Chr(s, i) == IF i <= Len(s) THEN s[i] ELSE ""

RECURSIVE SkipWs(_, _)
SkipWs(s, i) == IF Chr(s, i) = " " THEN SkipWs(s, i + 1) ELSE i

JsonDigits == {"0", "1"}

DigitVal(c) == IF c = "1" THEN 1 ELSE 0

\* The end of the digits that begin at i.
RECURSIVE DigitsEnd(_, _)
DigitsEnd(s, i) == IF Chr(s, i) \in JsonDigits THEN DigitsEnd(s, i + 1) ELSE i

\* The decimal number written by the digits d.
RECURSIVE NumOf(_)
NumOf(d) ==
    IF d = <<>> THEN 0
    ELSE 10 * NumOf(SubSeq(d, 1, Len(d) - 1)) + DigitVal(d[Len(d)])

\* The closing quote of the string that begins before j, 0 when there is none.
RECURSIVE CloseQuote(_, _)
CloseQuote(s, j) ==
    IF j > Len(s) THEN 0 ELSE IF s[j] = "\"" THEN j ELSE CloseQuote(s, j + 1)

\* A number: 0, or digits that do not begin with 0.
ParseNumber(s, i, e) ==
    IF s[i] = "0" /\ e > i + 1 THEN <<>> ELSE <<JNum(NumOf(SubSeq(s, i, e - 1))), e>>

ParseString(s, i, q) ==
    IF q = 0 THEN <<>> ELSE <<JStr(SubSeq(s, i + 1, q - 1)), q + 1>>

\* serde_json's parser on the JSON of the model: literals, numbers, strings
\* without escapes, arrays and objects.  <<value, next index>>, <<>> for a
\* syntax error.
RECURSIVE ParseAt(_, _)
RECURSIVE ParseElems(_, _, _)
RECURSIVE ParseMembers(_, _, _)
ElemsAfter(s, acc, r) ==
    IF r = <<>> THEN <<>>
    ELSE IF Chr(s, SkipWs(s, r[2])) = ","
    THEN ParseElems(s, SkipWs(s, r[2]) + 1, Append(acc, r[1]))
    ELSE IF Chr(s, SkipWs(s, r[2])) = "]"
    THEN <<JArr(Append(acc, r[1])), SkipWs(s, r[2]) + 1>>
    ELSE <<>>

ParseElems(s, i, acc) == ElemsAfter(s, acc, ParseAt(s, i))

Insert(m, key, val) ==
    [x \in DOMAIN m \cup {key} |-> IF x = key THEN val ELSE m[x]]

MembersAfter(s, acc, key, r) ==
    IF r = <<>> THEN <<>>
    ELSE IF Chr(s, SkipWs(s, r[2])) = ","
    THEN ParseMembers(s, SkipWs(s, r[2]) + 1, Insert(acc, key, r[1]))
    ELSE IF Chr(s, SkipWs(s, r[2])) = "}"
    THEN <<JObj(Insert(acc, key, r[1])), SkipWs(s, r[2]) + 1>>
    ELSE <<>>

MemberValue(s, acc, key) ==
    IF key = <<>> \/ key[1].k # "str" \/ Chr(s, SkipWs(s, key[2])) # ":" THEN <<>>
    ELSE MembersAfter(s, acc, key[1].v, ParseAt(s, SkipWs(s, key[2]) + 1))

ParseMembers(s, i, acc) ==
    IF Chr(s, SkipWs(s, i)) # "\"" THEN <<>>
    ELSE MemberValue(s, acc, ParseString(s, SkipWs(s, i), CloseQuote(s, SkipWs(s, i) + 1)))

ParseToken(s, i) ==
    IF StartsAt(s, i, T_true) THEN <<JBool(TRUE), i + 4>>
    ELSE IF StartsAt(s, i, T_false) THEN <<JBool(FALSE), i + 5>>
    ELSE IF StartsAt(s, i, T_null) THEN <<JNull, i + 4>>
    ELSE IF Chr(s, i) \in JsonDigits THEN ParseNumber(s, i, DigitsEnd(s, i))
    ELSE IF Chr(s, i) = "\"" THEN ParseString(s, i, CloseQuote(s, i + 1))
    ELSE IF Chr(s, i) = "["
    THEN IF Chr(s, SkipWs(s, i + 1)) = "]" THEN <<JArr(<<>>), SkipWs(s, i + 1) + 1>>
         ELSE ParseElems(s, i + 1, <<>>)
    ELSE IF Chr(s, i) = "{"
    THEN IF Chr(s, SkipWs(s, i + 1)) = "}" THEN <<JObj(NoMembers), SkipWs(s, i + 1) + 1>>
         ELSE ParseMembers(s, i + 1, NoMembers)
    ELSE <<>>

ParseAt(s, i) == ParseToken(s, SkipWs(s, i))

\* The whole text is one value: <<value>> for Ok(value), <<>> for Err(_).
WholeText(s, r) ==
    IF r # <<>> /\ SkipWs(s, r[2]) = Len(s) + 1 THEN <<r[1]>> ELSE <<>>

\* serde_json::from_str::<Value>
FromStr(s) == WholeText(s, ParseAt(s, 1))

\* Value::get(&str) and Value::get(usize)
GetKey(cur, key) ==
    IF cur.k = "obj" /\ key \in DOMAIN cur.v THEN <<cur.v[key]>> ELSE <<>>

GetIndex(cur, n) ==
    IF cur.k = "arr" /\ n < Len(cur.v) THEN <<cur.v[n + 1]>> ELSE <<>>

\* The end of the key that begins at j: the next '.' or '[' or the end.
RECURSIVE KeyEnd(_, _)
KeyEnd(path, j) ==
    IF j <= Len(path) /\ path[j] # "." /\ path[j] # "[" THEN KeyEnd(path, j + 1)
    ELSE j

\* The loop of json_path_get from index idx (counted from 1) with cur the
\* value reached: <<value>> for Some(value), <<>> for None.
RECURSIVE PathFrom(_, _, _)
PathNext(got, path, idx) == IF got = <<>> THEN <<>> ELSE PathFrom(got[1], path, idx)

PathIndex(cur, path, idx, k) ==
    IF k = idx \/ Chr(path, k) # "]" THEN <<>>
    ELSE PathNext(GetIndex(cur, NumOf(SubSeq(path, idx, k - 1))), path,
                  IF Chr(path, k + 1) = "." THEN k + 2 ELSE k + 1)

PathRest(got, path, j) ==
    IF got = <<>> THEN <<>>
    ELSE IF j > Len(path) THEN got
    ELSE IF path[j] = "." THEN PathNext(got, path, j + 1)
    ELSE PathIndex(got[1], path, j + 1, DigitsEnd(path, j + 1))

PathKey(cur, path, idx, j) ==
    PathRest(IF j > idx THEN GetKey(cur, SubSeq(path, idx, j - 1)) ELSE <<cur>>, path, j)

PathFrom(cur, path, idx) ==
    IF idx > Len(path) THEN <<cur>> ELSE PathKey(cur, path, idx, KeyEnd(path, idx))

json_path_get(root, path) ==
    IF ~StartsAt(path, 1, <<".">>) THEN <<>> ELSE PathFrom(root, path, 2)

\* r.strip_prefix('"').and_then(|s| s.strip_suffix('"')).unwrap_or(r)
StripQuotes(r) ==
    IF Len(r) >= 2 /\ r[1] = "\"" /\ r[Len(r)] = "\"" THEN SubSeq(r, 2, Len(r) - 1)
    ELSE r

\* The literal right of "==": JSON when it parses, else a string.
Literal(right, parsed) == IF parsed # <<>> THEN parsed[1] ELSE JStr(StripQuotes(Trim(right)))

Compare(lv, right) ==
    IF lv = <<>> THEN "Err"
    ELSE IF JsonEq(lv[1], Literal(right, FromStr(right))) THEN "Ok(true)"
    ELSE "Ok(false)"

PathOnly(v) == IF v # <<>> /\ JsonEq(v[1], JBool(TRUE)) THEN "Ok(true)" ELSE "Ok(false)"

EvalSrc(src, value, idx) ==
    IF src = T_true THEN "Ok(true)"
    ELSE IF idx # 0
    THEN Compare(json_path_get(value, Trim(SubSeq(src, 1, idx - 1))),
                 Trim(TrimStartMatches(SubSeq(src, idx, Len(src)), T_eq)))
    ELSE IF StartsAt(src, 1, <<".">>) THEN PathOnly(json_path_get(value, src))
    ELSE "Err"

\* eval_jq_bool: "Ok(true)", "Ok(false)" or "Err".
eval_jq_bool(program, value) == EvalSrc(Trim(program), value, Find(Trim(program), T_eq))

\* Some(s) of a non-empty string, else None.
NonEmpty(f) == IF f # <<>> /\ f[1] # <<>> THEN f ELSE <<>>

FilterModes == {"Plain", "Jq"}

JqPass(mf, val) == val # <<>> /\ eval_jq_bool(mf, val[1]) = "Ok(true)"

KeyPass(key_s, kf) ==
    kf = <<>> \/ Contains(ToLowercase(key_s), ToLowercase(kf[1]))

MessagePass(payload_s, mf, mode) ==
    \/ mf = <<>>
    \/ mode = "Jq" /\ JqPass(mf[1], FromStr(payload_s))
    \/ mode = "Plain" /\ Contains(ToLowercase(payload_s), ToLowercase(mf[1]))

\* pass, as the runner has it at `if pass` (kafka_adapter.rs 304-331).
RunnerPass(key_s, payload_s, key_filter, msg_filter, mode) ==
    /\ KeyPass(key_s, NonEmpty(key_filter))
    /\ MessagePass(payload_s, NonEmpty(msg_filter), mode)

\* The keys, the values and the filters of the records that are filtered.
FilterKeys ==
    {<<>>,
     <<"a">>,
     <<"A", "b">>,
     <<"b">>}

\* Decoded values: JSON texts, a truncated one, plain text, nothing.
FilterValues ==
    {<<"t", "r", "u", "e">>,
     <<" ", "t", "r", "u", "e", " ">>,
     <<"{", "\"", "a", "\"", ":", "t", "r", "u", "e", "}">>,
     <<"{", "\"", "a", "\"", ":", "1", "}">>,
     <<"{", "\"", "a", "\"", ":", "\"", "b", "\"", "}">>,
     <<"{", "\"", "a", "\"", ":", "[", "1", ",", "t", "r", "u", "e", "]", "}">>,
     <<"{", "\"", "a", "\"", ":", "{", "\"", "b", "\"", ":", "t", "r", "u", "e", "}", "}">>,
     <<"{", "\"", "a", "\"">>,
     <<"a", "B">>,
     <<>>}

\* key_filter, when given.
KeyFilters ==
    {<<>>,
     <<"a">>,
     <<"A">>,
     <<"a", "B">>}

\* message_filter, when given: jq programs and plain words.
MessageFilters ==
    {<<"t", "r", "u", "e">>,
     <<"T", "R", "U", "E">>,
     <<".">>,
     <<".", "a">>,
     <<".", "b">>,
     <<".", "a", ".", "b">>,
     <<".", "a", "[", "1", "]">>,
     <<".", "a", " ", "=", "=", " ", "t", "r", "u", "e">>,
     <<".", "a", "=", "=", "1">>,
     <<".", "a", " ", "=", "=", " ", "b">>,
     <<".", "a", " ", "=", "=", " ", "\"", "b", "\"">>,
     <<".", "b", " ", "=", "=", " ", "1">>,
     <<"a">>,
     <<"b">>}

\* The runner decides about one polled in-window record: emit iff pass.
RunnerFilter(key_s, payload_s, key_filter, msg_filter, mode) ==
    /\ matched' = <<[key |-> key_s, value |-> payload_s, key_filter |-> key_filter,
                    message_filter |-> msg_filter, mode |-> mode,
                    emit |-> RunnerPass(key_s, payload_s, key_filter, msg_filter, mode)]>>
    /\ UNCHANGED <<engineVars, decoded, threads, linked>>

NextFilter ==
    /\ matched = <<>>
    /\ \E key_s \in FilterKeys, payload_s \in FilterValues,
          kf \in Optional(KeyFilters), mf \in Optional(MessageFilters),
          mode \in FilterModes :
              RunnerFilter(key_s, payload_s, kf, mf, mode)

SpecFilter == Init /\ [][NextFilter]_vars

(***************************************************************************)
(* The descriptor linker alone: link_file_descriptors (utils/mod.rs        *)
(* 65-145) and the same loop in ProtoDecoder::from_proto_files             *)
(* (proto_decoder/mod.rs 114-147), which resolves an import by its full    *)
(* name only.  A file name is the sequence of the components of its path;  *)
(* a file is its name and the names it imports.                            *)
(***************************************************************************)
MaxFiles == 3

FileNames == {<<"a">>, <<"d", "a">>, <<"b">>, <<"e">>}

\* What a file may import: the names above and a file no set contains.
ImportNames == FileNames \cup {<<"c">>}

DependencyLists ==
    {<<>>} \cup {<<n>> : n \in ImportNames}
        \cup {<<<<"a">>, <<"b">>>>, <<<<"b">>, <<"c">>>>}

FileProtos == [name : FileNames, dependency : DependencyLists]

\* protoc writes every file once.
DescriptorSets ==
    {fds \in UNION {[1..n -> FileProtos] : n \in 1..MaxFiles} :
        \A i, j \in DOMAIN fds : fds[i].name = fds[j].name => i = j}

Linkers == {"link_file_descriptors", "from_proto_files"}

\* Path::new(dep).file_name()
FileName(path) == path[Len(path)]

NoIndex == [x \in {} |-> 0]

NamesOf(files) == [i \in DOMAIN files |-> files[i].name]

Range(s) == {s[i] : i \in DOMAIN s}

\* resolve_dep: <<idx>> for Some(idx), <<>> for None.
resolve_dep(l, dep) ==
    IF dep \in DOMAIN l.built_full THEN <<l.built_full[dep]>>
    ELSE IF /\ l.linker = "link_file_descriptors"
            /\ FileName(dep) \notin l.base_collisions
            /\ FileName(dep) \in DOMAIN l.built_base
    THEN <<l.built_base[FileName(dep)]>>
    ELSE <<>>

deps_ready(l, fd) == \A k \in DOMAIN fd.dependency : resolve_dep(l, fd.dependency[k]) # <<>>

deps_vec(l, fd) == [k \in DOMAIN fd.dependency |-> l.built[resolve_dep(l, fd.dependency[k])[1]]]

\* FileDescriptor::new_dynamic of the protobuf crate looks every declared
\* dependency up, by its name, in the descriptors it is given.
Declared(fd, deps) == \A k \in DOMAIN fd.dependency : fd.dependency[k] \in Range(NamesOf(deps))

\* built_base and base_collisions after the file named full is built.
BaseAfter(l, full) ==
    IF l.linker # "link_file_descriptors" THEN l.built_base
    ELSE IF FileName(full) \in DOMAIN l.built_base
    THEN [x \in DOMAIN l.built_base \ {FileName(full)} |-> l.built_base[x]]
    ELSE IF FileName(full) \notin l.base_collisions
    THEN (FileName(full) :> (Len(l.built) + 1)) @@ l.built_base
    ELSE l.built_base

CollisionsAfter(l, full) ==
    IF l.linker = "link_file_descriptors" /\ FileName(full) \in DOMAIN l.built_base
    THEN l.base_collisions \cup {FileName(full)}
    ELSE l.base_collisions

RemoveAt(s, i) == SubSeq(s, 1, i - 1) \o SubSeq(s, i + 1, Len(s))

\* Ok(fdesc) => { .. continue; }
Built(l, fd) ==
    [l EXCEPT !.built_full = (fd.name :> (Len(l.built) + 1)) @@ l.built_full,
              !.built_base = BaseAfter(l, fd.name),
              !.base_collisions = CollisionsAfter(l, fd.name),
              !.built = Append(l.built, fd),
              !.remaining = RemoveAt(l.remaining, l.i),
              !.progress = TRUE]

\* return Err(..)
Failed(l, what, names) == [l EXCEPT !.pc = "done", !.result = what, !.named = names]

linkerFrame == <<engineVars, decoded, threads, matched>>

\* The call: remaining = fds.file.clone(), nothing built, progress = true.
LinkStart(linker, fds) ==
    /\ linked = <<>>
    /\ linked' = <<[linker |-> linker, fds |-> fds, remaining |-> fds, built |-> <<>>,
                   built_full |-> NoIndex, built_base |-> NoIndex,
                   base_collisions |-> {}, progress |-> TRUE, i |-> 1,
                   pc |-> "outer", result |-> "", named |-> <<>>]>>
    /\ UNCHANGED linkerFrame

\* while !remaining.is_empty() && progress, and what follows the loop.
LinkOuter ==
    /\ linked # <<>> /\ linked[1].pc = "outer"
    /\ linked' =
          <<IF linked[1].remaining # <<>> /\ linked[1].progress
            THEN [linked[1] EXCEPT !.progress = FALSE, !.i = 1, !.pc = "inner"]
            ELSE IF linked[1].remaining # <<>>
            THEN Failed(linked[1], "Failed to resolve dependencies",
                        NamesOf(linked[1].remaining))
            ELSE [linked[1] EXCEPT !.pc = "done", !.result = "Ok"]>>
    /\ UNCHANGED linkerFrame

\* while i < remaining.len(): one file of remaining is looked at.  accepts is
\* the verdict of new_dynamic on dependencies that are not the declared ones.
Examine(l, fd, accepts) ==
    IF ~deps_ready(l, fd) THEN [l EXCEPT !.i = @ + 1]
    ELSE IF Declared(fd, deps_vec(l, fd)) \/ accepts THEN Built(l, fd)
    ELSE Failed(l, "Failed to build FileDescriptor", <<fd.name>>)

LinkInner ==
    /\ linked # <<>> /\ linked[1].pc = "inner"
    /\ \E accepts \in BOOLEAN :
          linked' =
             <<IF linked[1].i > Len(linked[1].remaining)
               THEN [linked[1] EXCEPT !.pc = "outer"]
               ELSE Examine(linked[1], linked[1].remaining[linked[1].i], accepts)>>
    /\ UNCHANGED linkerFrame

NextLink ==
    \/ /\ linked = <<>>
       /\ \E linker \in Linkers, fds \in DescriptorSets : LinkStart(linker, fds)
    \/ LinkOuter
    \/ LinkInner

SpecLink == Init /\ [][NextLink]_vars

\* The call runs on its thread to its return.
FairSpecLink == SpecLink /\ WF_vars(LinkOuter) /\ WF_vars(LinkInner)

(***************************************************************************)
(* The locks alone: the mutexes of the engine (end_offsets, partitions,    *)
(* buffers, done_partitions) and of AppState (kafka, load_session), and    *)
(* what every command and every loop iteration does with them.  An         *)
(* operation is <<"lock", l>>, <<"unlock", l>> (the guard is dropped) or   *)
(* <<"call", c>>, a blocking call of the source.                           *)
(***************************************************************************)
Lk(l) == <<"lock", l>>

Un(l) == <<"unlock", l>>

Src(c) == <<"call", c>>

\* A guard taken for a lookup or an update and dropped at the end of the
\* statement or block.
Guarded(l) == <<Lk(l), Un(l)>>

\* Kafka::ensure_assigned when the engine is not assigned yet: the end
\* offsets are fetched under the end_offsets guard.
EnsureAssignedOps ==
    <<Src("fetch_metadata"), Lk("end_offsets"), Src("fetch_watermarks"),
      Un("end_offsets")>>
        \o Guarded("partitions") \o Guarded("buffers")
        \o <<Src("fetch_watermarks"), Src("assign")>>

\* Kafka::apply_filters_mut
ApplyFiltersMutOps ==
    Guarded("end_offsets") \o Guarded("partitions") \o Guarded("done_partitions")
        \o Guarded("buffers") \o <<Src("assign")>>

\* Kafka::consume_next up to the dispatch of the strategy.
ConsumeNextOps ==
    Guarded("end_offsets") \o Guarded("partitions") \o Guarded("done_partitions")
        \o Guarded("buffers")

\* A polled record that is buffered, and the last of its window: the done
\* set is updated under the buffers guard.
BufferRecordOps_Inverted ==
    <<Src("poll"), Lk("done_partitions"), Lk("buffers"), Un("buffers"),
      Un("done_partitions")>>

BufferRecordOps ==
    <<Src("poll"), Lk("buffers"), Lk("done_partitions"), Un("done_partitions"),
      Un("buffers")>>

\* A polled record at or past the end of its window.
SkipRecordOps == <<Src("poll")>> \o Guarded("done_partitions")

\* One iteration of the fill loop of merge-oldest.
FillOps(recv) == Guarded("done_partitions") \o Guarded("buffers") \o recv

\* One iteration of the prefill loop of the newest-first strategies, and
\* their drain.
PrefillOps(recv) == Guarded("done_partitions") \o recv

DrainOps == Guarded("buffers") \o Guarded("buffers") \o Guarded("buffers")

\* One iteration of the sequential loop, oldest first.
SequentialOps == <<Src("poll")>> \o Guarded("done_partitions")

\* One iteration of the merge loop of merge-oldest: pop, done mark, next
\* head, and one iteration of the targeted refill.
MergeOps(recv) ==
    Guarded("buffers") \o Guarded("done_partitions") \o Guarded("buffers")
        \o Guarded("done_partitions") \o Guarded("buffers") \o recv

\* What a poll of the merge loops does with a record: past the window, or
\* pushed to its buffer.
MergeRecvOps == {SkipRecordOps, <<Src("poll")>> \o Guarded("buffers")}

\* The calls of the engine.
EngineCalls ==
    {EnsureAssignedOps, ApplyFiltersMutOps}
        \cup {pre \o ConsumeNextOps \o body :
                pre \in {<<>>, EnsureAssignedOps},
                body \in {SequentialOps, DrainOps}
                           \cup {FillOps(r) : r \in {BufferRecordOps, SkipRecordOps}}
                           \cup {PrefillOps(r) : r \in {BufferRecordOps, SkipRecordOps}}
                           \cup {MergeOps(r) : r \in MergeRecvOps}}

\* The commands of the adapter: the engine is called under the kafka mutex
\* of AppState; start_filtered_load snapshots the plan under it and takes
\* the session mutex after it.
StartFilteredLoadOps ==
    <<Lk("kafka")>> \o EnsureAssignedOps \o Guarded("partitions")
        \o Guarded("end_offsets") \o <<Un("kafka"), Src("fetch_watermarks")>>
        \o Guarded("load_session")

CancelFilteredLoadOps == Guarded("load_session")

LockPaths ==
    EngineCalls \cup {<<Lk("kafka")>> \o c \o <<Un("kafka")>> : c \in EngineCalls}
        \cup {StartFilteredLoadOps, CancelFilteredLoadOps}

\* Thread t calls the engine or a command: ops is what it will do.
Invoke(t, ops) ==
    /\ threads[t].todo = <<>>
    /\ threads' = [threads EXCEPT ![t].todo = ops]
    /\ UNCHANGED <<engineVars, decoded, matched, linked>>

HeldBy(t) == {threads[t].held[i] : i \in 1..Len(threads[t].held)}

\* Mutex::lock blocks while a guard of the mutex is alive, in any thread.
CanStep(t) ==
    /\ threads[t].todo # <<>>
    /\ threads[t].todo[1][1] = "lock" =>
          \A u \in ThreadIds : threads[t].todo[1][2] \notin HeldBy(u)

Without(held, l) == SelectSeq(held, LAMBDA h : h # l)

\* Thread t does its next operation.
StepOp(t) ==
    LET op == threads[t].todo[1]
        held1 == IF op[1] = "lock" THEN Append(threads[t].held, op[2])
                 ELSE IF op[1] = "unlock" THEN Without(threads[t].held, op[2])
                 ELSE threads[t].held
    IN  /\ CanStep(t)
        /\ threads' = [threads EXCEPT ![t] = [todo |-> Tail(threads[t].todo),
                                              held |-> held1]]
        /\ UNCHANGED <<engineVars, decoded, matched, linked>>

NextLocks ==
    \/ \E t \in ThreadIds, ops \in LockPaths : Invoke(t, ops)
    \/ \E t \in ThreadIds : StepOp(t)

SpecLocks == Init /\ [][NextLocks]_vars

(***************************************************************************)
(* Vocabulary of the properties.                                           *)
(***************************************************************************)
\* starting_offsets[p] as an offset: Offset::Beginning is the low watermark.
StartOf(p) == IF starting_offsets[p] = Beginning THEN low[p] ELSE starting_offsets[p]

Returned == result = <<"consume_next", "ok">> /\ pc = "idle"

MergeOldestPlan == IsAll(config) /\ ~Newest(config) /\ Cardinality(partitions) >= 2

OffsetsOf(s, p) == {s[i].offset : i \in {j \in 1..Len(s) : s[j].partition = p}}

CountOf(s, p) == Cardinality({j \in 1..Len(s) : s[j].partition = p})

\* Timestamps of the window of p do not decrease with the offset.
MonotoneLog(p) ==
    \A i, j \in 1..Len(log[p]) :
        (i < j /\ low[p] + j - 1 < EndOf(end_offsets, p))
            => TsMs(log[p][i]) <= TsMs(log[p][j])

Drained == \A p \in DOMAIN buffers : buffers[p] = <<>>

Increasing(s) ==
    \A i, j \in 1..Len(s) :
        (i < j /\ s[i].partition = s[j].partition) => s[i].offset < s[j].offset

Decreasing(s) ==
    \A i, j \in 1..Len(s) :
        (i < j /\ s[i].partition = s[j].partition) => s[i].offset > s[j].offset

(***************************************************************************)
(* C1: every record returned by consume_next lies in the window of its     *)
(* partition: starting_offsets[p] <= offset < end_offsets[p].              *)
(***************************************************************************)
C1_InWindow ==
    \A i \in 1..Len(emitted) :
        LET r == emitted[i]
        IN  /\ r.partition \in DOMAIN end_offsets
            /\ StartOf(r.partition) <= r.offset
            /\ r.offset < end_offsets[r.partition]

(***************************************************************************)
(* C2: within a partition the offsets of the returned records are strictly *)
(* increasing in emission order, in every strategy.                        *)
(***************************************************************************)
C2_Original == Increasing(emitted)

\* C2 as amended: increasing over all calls in merge-oldest; in the other
\* oldest-first reads a record precedes a record of lower offset only when
\* the sort of its batch put it first (its timestamp is smaller); newest
\* first, the offsets of a batch are strictly decreasing.
C2_OffsetOrder ==
    /\ MergeOldestPlan => Increasing(emitted)
    /\ ~Newest(config) =>
          \A i, j \in 1..Len(emitted) :
              (i < j /\ emitted[i].partition = emitted[j].partition)
                  => \/ emitted[i].offset < emitted[j].offset
                     \/ emitted[i].ts < emitted[j].ts
    /\ Newest(config) => Decreasing(batch)

C2_Witness ==
    /\ Returned
    /\ \/ MergeOldestPlan /\ \E p \in partitions : CountOf(emitted, p) >= 2
       \/ Newest(config) /\ \E p \in partitions : CountOf(batch, p) >= 2
       \/ ~Newest(config) /\ ~MergeOldestPlan /\ ~Increasing(emitted)

(***************************************************************************)
(* C3: in merge-oldest adjacent records r1, r2 of the stream satisfy       *)
(* r1.ts <= r2.ts or r2.ts is the sentinel, and equal timestamps come in   *)
(* ascending (partition, offset) order.                                    *)
(***************************************************************************)
AscendingPair(r1, r2) ==
    /\ r1.ts <= r2.ts \/ r2.ts = I64Max
    /\ r1.ts = r2.ts => KeyLess(KeyOf(r1), KeyOf(r2))

C3_Original ==
    MergeOldestPlan =>
        \A i \in 1..(Len(emitted) - 1) : AscendingPair(emitted[i], emitted[i + 1])

\* C3 as amended: the order holds when the timestamps of every partition do
\* not decrease with the offset and no record was emitted while a partition
\* that is not done had no buffered head.
C3_MergeOrder ==
    (MergeOldestPlan /\ ~early /\ \A p \in partitions : MonotoneLog(p)) =>
        \A i \in 1..(Len(emitted) - 1) : AscendingPair(emitted[i], emitted[i + 1])

C3_Witness ==
    /\ MergeOldestPlan /\ ~early /\ Returned
    /\ \A p \in partitions : MonotoneLog(p)
    /\ Len(emitted) >= 3
    /\ \E i \in 1..(Len(emitted) - 1) :
          /\ emitted[i].partition > emitted[i + 1].partition
          /\ emitted[i].ts < emitted[i + 1].ts

(***************************************************************************)
(* C4: newest first, adjacent records r1, r2 of the stream satisfy         *)
(* r1.ts >= r2.ts, equal timestamps in descending (partition, offset)      *)
(* order, also across consume_next calls.                                  *)
(***************************************************************************)
DescendingPair(r1, r2) ==
    /\ r1.ts >= r2.ts
    /\ r1.ts = r2.ts => KeyLess(KeyOf(r2), KeyOf(r1))

C4_Original ==
    Newest(config) =>
        \A i \in 1..(Len(emitted) - 1) : DescendingPair(emitted[i], emitted[i + 1])

\* C4 as amended: the order holds when the timestamps of every partition do
\* not decrease with the offset and no record was emitted before every
\* partition was done.
C4_NewestOrder ==
    (Newest(config) /\ ~early /\ \A p \in partitions : MonotoneLog(p)) =>
        \A i \in 1..(Len(emitted) - 1) : DescendingPair(emitted[i], emitted[i + 1])

C4_Witness ==
    /\ Newest(config) /\ ~early /\ Returned
    /\ \A p \in partitions : MonotoneLog(p)
    /\ Len(emitted) >= 3 /\ Len(batch) < Len(emitted)
    /\ \E i \in 1..(Len(emitted) - 1) :
          emitted[i].partition < emitted[i + 1].partition

(***************************************************************************)
(* C5: consume_next(limit) returns at most limit records.                  *)
(***************************************************************************)
C5_AtMostLimit == Returned => Len(batch) <= limit

C5_Witness ==
    /\ Returned /\ Len(batch) = limit
    /\ \E p \in partitions : buffers[p] # <<>>

(***************************************************************************)
(* C6: consume_next returns an empty batch if and only if, when it         *)
(* returns, every partition is done and every buffer is empty.             *)
(***************************************************************************)
C6_Original ==
    Returned =>
        (batch = <<>> <=> (partitions \subseteq done_partitions /\ Drained))

\* C6 as amended: the batch is empty when the call found every partition
\* done and every buffer empty, and an empty batch leaves every buffer empty.
C6_EmptyBatch ==
    Returned =>
        /\ entry_drained => batch = <<>>
        /\ batch = <<>> => Drained

C6_Witness ==
    /\ Returned /\ entry_drained /\ batch = <<>> /\ emitted # <<>>

(***************************************************************************)
(* C7: once the record end_offsets[p]-1 has been returned for every        *)
(* partition, all partitions are done and every later consume_next returns *)
(* an empty batch without polling.                                         *)
(***************************************************************************)
LastReturned ==
    /\ partitions # {}
    /\ \A p \in partitions :
          \E i \in 1..Len(emitted) :
              emitted[i].partition = p /\ emitted[i].offset = end_offsets[p] - 1

NoMoreRecords == pc' = "idle" /\ (emitted' = emitted \/ emitted' = <<>>)

C7_Original ==
    [][(LastReturned /\ pc = "idle")
          => (partitions \subseteq done_partitions /\ NoMoreRecords)]_vars

\* C7 as amended: ... and every partition buffer is empty ...
C7_Terminated ==
    [][(LastReturned /\ pc = "idle" /\ Drained)
          => (partitions \subseteq done_partitions /\ NoMoreRecords)]_vars

C7_Witness ==
    /\ LastReturned /\ Returned /\ Drained
    /\ batch = <<>> /\ ~polled /\ Cardinality(partitions) >= 2

(***************************************************************************)
(* C8: for every partition the offsets returned so far are a prefix of     *)
(* [starting_offsets[p], end_offsets[p]), without gaps or duplicates.      *)
(***************************************************************************)
PrefixFrom(a, p) ==
    /\ CountOf(emitted, p) = Cardinality(OffsetsOf(emitted, p))
    /\ OffsetsOf(emitted, p) = {a + k : k \in 0..(CountOf(emitted, p) - 1)}
    /\ \A o \in OffsetsOf(emitted, p) : o < end_offsets[p]

C9_UniqueIds ==
    /\ \A i, j \in 1..Len(emitted) : emitted[i].id = emitted[j].id => i = j
    /\ \A e \in DOMAIN run_emitted : run_emitted[e] <= 1
    /\ \A i \in 1..Len(emitted) :
          [cons |-> 0, id |-> emitted[i].id] \notin DOMAIN run_emitted

C9_Witness ==
    /\ Returned /\ Newest(config)
    /\ Len(emitted) >= 2 /\ Len(batch) < Len(emitted) /\ ~polled
    /\ \E e \in DOMAIN run_emitted : e.cons = 0
    /\ \E t \in TaskIds : Attached(t)

(***************************************************************************)
(* C10: after apply_filters no record of the previous plan is returned:    *)
(* every record returned belongs to the partitions and the window of the   *)
(* new plan.                                                               *)
(***************************************************************************)
C10_NoBleedThrough ==
    plan_origin = "apply_filters" =>
        \A i \in 1..Len(emitted) :
            LET r == emitted[i]
            IN  /\ r.partition \in partitions
                /\ StartOf(r.partition) <= r.offset
                /\ r.offset < end_offsets[r.partition]

(***************************************************************************)
(* C11: an apply_filters call that returns Ok leaves the engine with       *)
(* assigned = false, with partitions, end_offsets, every partition buffer  *)
(* and the DoneSet empty, and the consumer with an empty assignment.       *)
(***************************************************************************)
C11_FiltersReset ==
    (result = <<"apply_filters", "ok">> /\ pc = "idle") =>
        /\ ~assigned
        /\ partitions = {}
        /\ DOMAIN end_offsets = {}
        /\ \A p \in DOMAIN buffers : buffers[p] = <<>>
        /\ done_partitions = {}
        /\ DOMAIN position = {}

C11_Witness ==
    /\ result = <<"apply_filters", "ok">> /\ pc = "idle"
    /\ \E p \in TopicPartitions : Len(log[p]) >= 2
    /\ config.partition = <<"0">> /\ config.start_offset = <<2>>

C13_EndsFrozen ==
    /\ [](\A i \in 1..Len(emitted) : emitted[i].partition \in DOMAIN end_offsets)
    /\ [](pc # "idle" => partitions \subseteq DOMAIN end_offsets)
    /\ [][end_offsets # NoPlan =>
             \/ end_offsets' = end_offsets
             \/ end_offsets' = NoPlan /\ plan_origin' \in {"apply_filters", "reconfigure"}
                                      /\ emitted' = <<>>]_vars

C13_Witness ==
    /\ Returned /\ Len(batch) < Len(emitted)
    /\ \E p \in DOMAIN end_offsets :
          /\ High(p) > end_offsets[p]
          /\ \E i \in 1..Len(emitted) : emitted[i].partition = p

(***************************************************************************)
(* C14: the session slot holds at most one LoadSession;                    *)
(* start_filtered_load sends the cancel signal to the previous session     *)
(* before it installs the new one and before the new session emits any     *)
(* event, so at any time at most one runner exists that has not been       *)
(* signalled to stop, and it is the one of the session in the slot.        *)
(***************************************************************************)
C14_OneUnsignalled ==
    /\ Cardinality({t \in TaskIds : Live(t) /\ ~tasks[t].signalled}) <= 1
    /\ \A t \in TaskIds : Live(t) /\ ~tasks[t].signalled => load_session = t
    /\ \A t \in TaskIds :
          events[t] # <<>> /\ load_session = t =>
              \A u \in TaskIds \ {t} : Live(u) => tasks[u].signalled

C14_Witness ==
    \E t, u \in TaskIds :
        /\ load_session = t /\ Looping(tasks[t]) /\ ~tasks[t].signalled
        /\ \E i \in 1..Len(events[t]) : events[t][i].name = "message"
        /\ u # t /\ Looping(tasks[u]) /\ tasks[u].signalled
        /\ events[u] # <<>>

(***************************************************************************)
(* Vocabulary of the session histories.                                    *)
(***************************************************************************)
Terminal(e) == e.name \in {"load_done", "load_cancelled"}

CountName(s, nm) == Cardinality({i \in 1..Len(s) : s[i].name = nm})

HasCancel(s) == \E i \in 1..Len(s) : s[i].name = "cancel"

\* What the history holds after the cancel signal reached the runner.
AfterCancel(s) ==
    LET i == CHOOSE j \in 1..Len(s) : s[j].name = "cancel"
    IN  SubSeq(s, i + 1, Len(s))

\* The events on the window, without the notes of signals and polls.
RECURSIVE Emissions(_)
Emissions(s) ==
    IF s = <<>> THEN <<>>
    ELSE IF Head(s).name \in {"cancel", "poll"} THEN Emissions(Tail(s))
    ELSE <<Head(s)>> \o Emissions(Tail(s))

C16_Protocol ==
    /\ [](\A t \in TaskIds :
            LET s == Emissions(events[t])
            IN  s # <<>> =>
                  /\ s[1].name = "load_started"
                  /\ \A i \in 2..Len(s) :
                        \/ s[i].name = "message"
                        \/ Terminal(s[i]) /\ i = Len(s))
    /\ \A t \in TaskIds :
          (events[t] # <<>>) ~> (events[t] # <<>> /\ Terminal(events[t][Len(events[t])]))

(***************************************************************************)
(* C17: for a limit of at least 1, a session never emits more message      *)
(* events than its limit, and the number load_done carries is the number   *)
(* of message events of that session.                                      *)
(***************************************************************************)
C17_LimitCount ==
    \A t \in TaskIds :
        LET s == events[t]
        IN  s # <<>> =>
              /\ CountName(s, "message") <= s[1].n
              /\ Live(t) => tasks[t].count = CountName(s, "message")
              /\ \A i \in 1..Len(s) :
                    s[i].name = "load_done" =>
                        s[i].n = CountName(SubSeq(s, 1, i), "message")

C17_Witness ==
    \E t \in TaskIds :
        LET s == events[t]
        IN  /\ s # <<>> /\ s[1].n = MaxLimit
            /\ s[Len(s)] = Ev("load_done", MaxLimit)
            /\ CountName(s, "message") = MaxLimit

(***************************************************************************)
(* C18: a runner that is never cancelled and whose source delivers every   *)
(* record of the window eventually emits load_done and stops, for every    *)
(* plan, including those with empty-window partitions and a single         *)
(* partition whose start_offset lies at or beyond the snapshot end.  (A    *)
(* runner that is not signalled leaves its loop through load_done only;    *)
(* the source cannot deliver when the assignment of the consumer was       *)
(* emptied under the runner.)                                              *)
(***************************************************************************)
C18_LoadCompletes ==
    \A t \in TaskIds :
        Looping(tasks[t]) ~>
            \/ ~Live(t)
            \/ tasks[t].signalled
            \/ ~(tasks[t].parts \subseteq DOMAIN PositionOf(t))

(***************************************************************************)
(* C19: after reconfigure has returned, the previous source is released:   *)
(* no component, a runner started under the previous configuration         *)
(* included, still holds a handle to it or polls it.                       *)
(***************************************************************************)
C19_Released ==
    /\ \A t \in TaskIds : Live(t) => tasks[t].cons = 0
    /\ \A k \in TaskIds : orphans[k] = Unassigned
    /\ \A e \in DOMAIN run_emitted : e.cons = 0

(***************************************************************************)
(* C20: with start_from "newest", for low <= high the planner assigns      *)
(* high - 2000 when high > 2000 and low otherwise.  That is                *)
(* max(low, high - 2000) unless 0 < high - 2000 < low; there the assigned  *)
(* offset lies below the low watermark and the source's out-of-range       *)
(* reset makes reading start at low, which is max(low, high - 2000) again. *)
(***************************************************************************)
Max(a, b) == IF a >= b THEN a ELSE b

C20_NewestStart ==
    Newest(probe.cfg) =>
        /\ probe.start # Max(probe.low, probe.high - BACK_WINDOW) =>
              0 < probe.high - BACK_WINDOW /\ probe.high - BACK_WINDOW < probe.low
                 /\ probe.start = probe.high - BACK_WINDOW
        /\ Reset(probe.start, probe.low, probe.high)
              = Max(probe.low, probe.high - BACK_WINDOW)

C20_Witness ==
    /\ Newest(probe.cfg)
    /\ probe.high > BACK_WINDOW /\ probe.high - BACK_WINDOW < probe.low
    /\ probe.start < probe.low

\* C20 as stated: the assigned offset is max(low, high - 2000).
C20_Original ==
    Newest(probe.cfg) => probe.start = Max(probe.low, probe.high - BACK_WINDOW)

(***************************************************************************)
(* C21: when the partition selector is None, "" or "all" and start_from is *)
(* not newest, the planner assigns every partition of the topic from its   *)
(* low watermark (earliest), whatever start_offset was supplied.           *)
(***************************************************************************)
AllSelector(cfg) == cfg.partition = <<>> \/ cfg.partition[1] \in {"", "all"}

C21_AllFromLow ==
    [][(starting_offsets = NoPlan /\ starting_offsets' # NoPlan
            /\ AllSelector(config) /\ ~Newest(config)) =>
          /\ partitions' = TopicPartitions
          /\ \A p \in DOMAIN starting_offsets' :
                starting_offsets'[p] \in {Beginning, low[p]}]_vars

(***************************************************************************)
(* C22: if planning fails inside consume_next or start_filtered_load, the  *)
(* call returns the error and the engine stays unassigned, so a retried    *)
(* call runs the planner again and never returns a successful batch        *)
(* against a missing plan.                                                 *)
(***************************************************************************)
\* The planner ran for the current configuration and left no plan.
PlanMissing == planner_runs >= 1 /\ partitions = {}

C22_FailedPlan ==
    /\ (pc = "idle" /\ PlanMissing) => ~assigned
    /\ PlanMissing => ~Returned

(***************************************************************************)
(* C23: a poll error inside consume_next is treated as one idle poll (it   *)
(* counts toward the idle budget, no buffered record is lost, the call     *)
(* continues), and consume_next surfaces a SourceError exactly when every  *)
(* poll of the call's idle budget failed.                                  *)
(***************************************************************************)
\* The call polled, and every poll of it returned Some(Err(_)).
EveryPollFailed == poll_stats.failed = "all"

C23_ErrorSurfaced ==
    (pc = "idle" /\ result[1] = "consume_next" /\ EveryPollFailed) =>
        result[2] = "err"

(***************************************************************************)
(* C24: a protobuf decode failure on a record never changes which records  *)
(* consume_next returns, their order, or the DoneSet: the record is        *)
(* returned in its position with the lossy UTF-8 text of its raw bytes and *)
(* decoding_error set, and the call does not fail.                         *)
(***************************************************************************)
\* The timestamp of the record of the log a returned message came from.
RecordOf(m) == log[m.partition][m.offset - low[m.partition] + 1]

FailingStamps == {t \in Timestamps : ProtoDecode(EngineSelection, PayloadOf(t)) = <<>>}

DecodeFails(t) == t \in FailingStamps

\* No record between two records of a batch is left out: it is in the batch
\* or was returned before.
NoGap(b, all) ==
    \A i, j \in DOMAIN b :
        b[i].partition = b[j].partition =>
            \A o \in b[i].offset .. b[j].offset :
                \E k \in DOMAIN all :
                    all[k].partition = b[i].partition /\ all[k].offset = o

C29_SelectedOnly ==
    (decoded.fn = "proto" /\ decoded.sel # <<>> /\ decoded.ok) =>
        decoded.res.message.of = decoded.sel[1]

Commands == EngineCommands \cup {"get_kafka_status", "start_filtered_load"}

C25_NotConfigured ==
    [][(~configured /\ result' # result /\ result'[1] \in Commands) =>
          /\ result' = <<result'[1], "not configured">>
          /\ events' = Swept
          /\ UNCHANGED <<low, log, position, configured, config, assigned,
                         end_offsets, partitions, done_partitions, buffers, pc,
                         limit, out, idle_loops, local_idle, heap, pick_p,
                         starting_offsets, emitted, batch, polled, entry_drained,
                         early, plan_origin, planner_runs, poll_stats,
                         load_session, tasks, orphans, run_emitted>>]_vars

\* start_filtered_load found no engine after a reconfigure that failed.
C25_Witness ==
    /\ ~configured /\ plan_origin = "reconfigure"
    /\ result = <<"start_filtered_load", "not configured">>
    /\ load_session = 0 /\ \A t \in TaskIds : ~Live(t)

(***************************************************************************)
(* C26: in every reachable state in which assigned == false (initially,    *)
(* after reconfigure, after apply_filters whether it succeeded or failed,  *)
(* after a failed planning attempt), every partition buffer and the        *)
(* DoneSet are empty.                                                      *)
(***************************************************************************)
C26_UnassignedEmpty ==
    (\/ ~assigned
     \/ pc = "idle" /\ result[1] \in {"none", "reconfigure", "apply_filters"}
     \/ pc = "idle" /\ result = <<"consume_next", "err">>) =>
        /\ \A p \in DOMAIN buffers : buffers[p] = <<>>
        /\ done_partitions = {}

\* apply_filters on an engine that had returned records and kept some.
C26_Witness ==
    /\ ~assigned /\ pc = "idle" /\ result = <<"apply_filters", "ok">>
    /\ plan_origin = "apply_filters" /\ partitions = {}
    /\ Total(log, TopicPartitions) >= 2

(***************************************************************************)
(* C27: once a partition p is in the DoneSet, no further record of p is    *)
(* returned by consume_next for the current plan; in particular p is       *)
(* marked done by its last in-window record (offset end_offsets[p] - 1)    *)
(* only after that record has been emitted.                                *)
(***************************************************************************)
\* A consume_next call returns a batch with records in this step.
Returns == Len(emitted') > Len(emitted)

\* Message m was polled before: it is in the buffer of its partition or in
\* the batch the call is collecting.
InHand(m) ==
    \/ \E k \in DOMAIN buffers[m.partition] : buffers[m.partition][k] = m
    \/ \E k \in DOMAIN out : out[k] = m

Sequential == ~IsAll(config) \/ Cardinality(partitions) <= 1

\* The idle polls one call can make: the budget of its loop, and in
\* merge-oldest the budget shared by the fill and the empty-heap polls plus
\* the budget of every targeted refill, one refill per returned record.
IdleBound ==
    IF Sequential THEN IDLE_LIMIT_BATCH
    ELSE IF Newest(config) THEN IDLE_LIMIT_DRAIN
    ELSE IDLE_LIMIT_FILL + IDLE_LIMIT_REFILL * limit

SequentialLoops == {"seq_oldest", "seq_newest"}

MergeOldestLoops == {"merge_fill", "merge_poll", "merge_refill"}

\* Every call that enters a polling loop enters a loop of the strategy its
\* selector and plan name.
C31_Strategy ==
    [][(pc = "idle" /\ pc' # "idle") =>
          IF ~AllSelector(config) \/ Cardinality(partitions') <= 1
          THEN pc' \in SequentialLoops
          ELSE IF Newest(config) THEN pc' = "merge_newest"
          ELSE pc' \in MergeOldestLoops]_vars

(***************************************************************************)
(* C32: when apply_filters is called while a filtered-load runner is       *)
(* active, every message event the runner emits after apply_filters has    *)
(* returned belongs to the new plan: it is not evaluated against the       *)
(* partition set and end_offsets of the plan before.                       *)
(***************************************************************************)
\* Runner t takes a step that emits a message event.
EmitsMessage(t) ==
    tasks[t].st = "poll" /\ tasks'[t].st # "poll" /\ run_emitted' # run_emitted

\* A runner on the consumer of the engine tests the record it emits against
\* the plan of the engine; its snapshot and that plan differ only once
\* apply_filters has replaced the plan the runner was started on.
C32_NewPlan ==
    [][\A t \in TaskIds :
          (Attached(t) /\ EmitsMessage(t)) =>
              tasks[t].parts = partitions /\ tasks[t].ends = end_offsets]_vars

(***************************************************************************)
(* C33: events of successive sessions do not interleave: after             *)
(* start_filtered_load has emitted load_started for a new session, no      *)
(* message event produced by the runner of the session before is emitted.  *)
(***************************************************************************)
\* Task u is the installed session and its load_started is on the window.
StartedSession(u) == load_session = u /\ Looping(tasks[u])

C33_NoInterleaving ==
    [][\A t \in TaskIds :
          EmitsMessage(t) => \A u \in TaskIds \ {t} : ~StartedSession(u)]_vars

(***************************************************************************)
(* C34: no execution path of consume_next, apply_filters, ensure_assigned, *)
(* start_filtered_load or cancel_filtered_load acquires a lock that comes  *)
(* earlier in the order plan (end_offsets, partitions) -> buffers -> done  *)
(* -> session while it holds a later one, so concurrent callers never      *)
(* deadlock on these locks.                                                *)
(***************************************************************************)
LockRank ==
    [end_offsets |-> 1, partitions |-> 1, buffers |-> 2, done_partitions |-> 3,
     load_session |-> 4]

\* The ranked locks of held, in the order of their acquisition.
Ranked(held) == SelectSeq(held, LAMBDA l : l \in DOMAIN LockRank)

InOrder(held) ==
    \A i, j \in 1..Len(Ranked(held)) :
        i < j => LockRank[Ranked(held)[i]] <= LockRank[Ranked(held)[j]]

\* Some thread has work left and none of them can move.
Deadlocked ==
    /\ \E t \in ThreadIds : threads[t].todo # <<>>
    /\ \A t \in ThreadIds : ~CanStep(t)

C34_LockOrder ==
    /\ \A t \in ThreadIds : InOrder(threads[t].held)
    /\ ~Deadlocked

\* A thread holds the buffers and the done guard, nested, while the other
\* thread waits for the buffers.
C34_Witness ==
    \E t, u \in ThreadIds :
        /\ threads[t].held = <<"buffers", "done_partitions">>
        /\ threads[u].todo # <<>> /\ threads[u].todo[1] = Lk("buffers")

(***************************************************************************)
(* C35: no engine state lock (plan snapshot, buffers, done set) is held    *)
(* while a blocking source call (poll, fetch_watermarks, fetch_metadata,   *)
(* assign) is in progress; in particular the buffers guard is always       *)
(* dropped before the next poll.                                           *)
(***************************************************************************)
EngineLocks == {"end_offsets", "partitions", "buffers", "done_partitions"}

\* A thread about to make a source call holds no lock of the engine state.
C35_NoLockAcrossCall ==
    \A t \in ThreadIds :
        (threads[t].todo # <<>> /\ threads[t].todo[1][1] = "call") =>
            HeldBy(t) \cap EngineLocks = {}

(***************************************************************************)
(* C36: every in-window record polled by consume_next is either in the     *)
(* batch returned by that call or remains in its partition buffer and is   *)
(* returned by a later consume_next of the same plan; none is dropped,     *)
(* including records of other partitions that arrive during a targeted     *)
(* refill and records left over when limit is reached.                     *)
(***************************************************************************)
\* The messages of sequence s.
MessagesOf(s) == {s[i] : i \in DOMAIN s}

\* The polled records the engine has: returned, collected by the call under
\* way, or buffered.
Kept(em, o, bufs) ==
    MessagesOf(em) \cup MessagesOf(o)
        \cup UNION {MessagesOf(bufs[p]) : p \in DOMAIN bufs}

\* The in-window record this step polls, if it polls one.
PolledNow ==
    {UiMessage(Msg(p)) :
        p \in {q \in Ready : /\ pc # "idle"
                             /\ position'[q] # position[q]
                             /\ Msg(q).offset < EndOf(end_offsets, q)}}

\* The plan survives the step: no apply_filters, reconfigure or planning.
SamePlan == starting_offsets' = starting_offsets /\ plan_origin' = plan_origin

\* No step of a plan loses a polled record: what was returned, collected or
\* buffered before the step, and the in-window record the step polls, is
\* returned, collected or buffered after it; a batch is made of polled
\* records only; and a call that returns no record leaves none buffered.
C36_NothingDropped ==
    [][SamePlan =>
          /\ Kept(emitted, out, buffers) \cup PolledNow
                \subseteq Kept(emitted', out', buffers')
          /\ Returns =>
                MessagesOf(batch') \subseteq Kept(<<>>, out, buffers) \cup PolledNow
          /\ (Returned /\ batch = <<>>)' => Drained']_vars

\* A call returned at its limit and left, in the buffer of a partition, a
\* record that arrived during the targeted refill of the other one.
C36_Witness ==
    /\ Returned /\ MergeOldestPlan /\ Len(batch) = limit
    /\ \E p \in partitions :
          /\ buffers[p] # <<>>
          /\ \E i \in DOMAIN batch : batch[i].partition # p

(***************************************************************************)
(* C37: during the merge phase of merge-oldest, at the end of every loop   *)
(* iteration the priority queue holds exactly one entry for each partition *)
(* whose buffer is non-empty, keyed by the head (ts, partition, offset) of *)
(* that buffer, and no entry for a partition whose buffer is empty.        *)
(***************************************************************************)
MergePhase == pc \in {"merge_poll", "merge_refill"}

HeapEntries(h, p) == {k \in BagToSet(h) : k[2] = p}

C37_HeapHeads ==
    MergePhase =>
        \A p \in DOMAIN buffers :
            IF buffers[p] = <<>> THEN HeapEntries(heap, p) = {}
            ELSE /\ HeapEntries(heap, p) = {KeyOf(Front(buffers[p]))}
                 /\ CopiesIn(KeyOf(Front(buffers[p])), heap) = 1

C37_Witness ==
    /\ MergePhase
    /\ out # <<>>
    /\ \E p \in partitions :
          /\ Len(buffers[p]) >= 2
          /\ KeyOf(Front(buffers[p])) # KeyOf(Back(buffers[p]))
          /\ HeapEntries(heap, p) = {KeyOf(Front(buffers[p]))}
    /\ \E p \in partitions : buffers[p] = <<>> /\ HeapEntries(heap, p) = {}

(***************************************************************************)
(* C38: the protobuf decoder tries the views in the order raw payload,     *)
(* Confluent-envelope views, gRPC frame, bare varint length prefix, and    *)
(* attempts the payload repaired with a prepended 0x0A only after all of   *)
(* those failed to parse: a decoding of the repaired payload as a message  *)
(* means that none of the envelope views parses as that message.           *)
(***************************************************************************)
Repaired(payload) == <<10>> \o payload

EnvelopeViews(payload) ==
    ConfluentViews(payload) \o GrpcViews(payload) \o PrefixViews(payload)

DecodedRepair ==
    /\ decoded.fn = "proto" /\ decoded.ok
    /\ decoded.res.message.text = Repaired(decoded.payload[1])

C38_RepairLast ==
    DecodedRepair =>
        \A i \in DOMAIN EnvelopeViews(decoded.payload[1]) :
            ~ParsesAs(decoded.res.message.of, EnvelopeViews(decoded.payload[1])[i])

(***************************************************************************)
(* C39: the runner emits a message event for a polled in-window record if  *)
(* and only if the record passes both filters: an absent or empty filter   *)
(* passes everything, key_filter is a case-insensitive substring test on   *)
(* the key, value_filter in Plain mode is a case-insensitive substring     *)
(* test on the decoded value, and in Jq mode the record passes only if the *)
(* value parses as JSON and the expression evaluates to true (a parse      *)
(* failure, a missing path and an unsupported expression give no match).   *)
(***************************************************************************)
CasePairs == {{"a", "A"}, {"b", "B"}, {"e", "E"}, {"r", "R"}, {"t", "T"}, {"u", "U"}}

SameLetter(a, b) == a = b \/ {a, b} \in CasePairs

\* needle occurs in hay, letters compared without their case.
CaseInsensitiveSubstring(needle, hay) ==
    \E i \in 0..(Len(hay) - Len(needle)) :
        \A j \in 1..Len(needle) : SameLetter(hay[i + j], needle[j])

\* The values that are JSON texts.
JsonTexts ==
    {<<"t", "r", "u", "e">>,
     <<" ", "t", "r", "u", "e", " ">>,
     <<"{", "\"", "a", "\"", ":", "t", "r", "u", "e", "}">>,
     <<"{", "\"", "a", "\"", ":", "1", "}">>,
     <<"{", "\"", "a", "\"", ":", "\"", "b", "\"", "}">>,
     <<"{", "\"", "a", "\"", ":", "[", "1", ",", "t", "r", "u", "e", "]", "}">>,
     <<"{", "\"", "a", "\"", ":", "{", "\"", "b", "\"", ":", "t", "r", "u", "e", "}", "}">>}

\* The pairs of a path expression and a JSON text on which the expression is
\* true: the path resolves to true, or to the literal it is compared with.
PathMatches ==
    {<<<<".">>,
       <<"t", "r", "u", "e">>>>,
     <<<<".">>,
       <<" ", "t", "r", "u", "e", " ">>>>,
     <<<<".", "a">>,
       <<"{", "\"", "a", "\"", ":", "t", "r", "u", "e", "}">>>>,
     <<<<".", "a", ".", "b">>,
       <<"{", "\"", "a", "\"", ":", "{", "\"", "b", "\"", ":", "t", "r", "u", "e", "}", "}">>>>,
     <<<<".", "a", "[", "1", "]">>,
       <<"{", "\"", "a", "\"", ":", "[", "1", ",", "t", "r", "u", "e", "]", "}">>>>,
     <<<<".", "a", " ", "=", "=", " ", "t", "r", "u", "e">>,
       <<"{", "\"", "a", "\"", ":", "t", "r", "u", "e", "}">>>>,
     <<<<".", "a", "=", "=", "1">>,
       <<"{", "\"", "a", "\"", ":", "1", "}">>>>,
     <<<<".", "a", " ", "=", "=", " ", "b">>,
       <<"{", "\"", "a", "\"", ":", "\"", "b", "\"", "}">>>>,
     <<<<".", "a", " ", "=", "=", " ", "\"", "b", "\"">>,
       <<"{", "\"", "a", "\"", ":", "\"", "b", "\"", "}">>>>}

ExpressionTrue(program, value) ==
    value \in JsonTexts /\ (program = T_true \/ <<program, value>> \in PathMatches)

Absent(f) == f = <<>> \/ f[1] = <<>>

PassesFilters(m) ==
    /\ Absent(m.key_filter) \/ CaseInsensitiveSubstring(m.key_filter[1], m.key)
    /\ \/ Absent(m.message_filter)
       \/ m.mode = "Plain" /\ CaseInsensitiveSubstring(m.message_filter[1], m.value)
       \/ m.mode = "Jq" /\ ExpressionTrue(m.message_filter[1], m.value)

C39_EmitIffPass == matched # <<>> => (matched[1].emit <=> PassesFilters(matched[1]))

C39_Witness ==
    /\ matched # <<>> /\ matched[1].emit
    /\ matched[1].key = <<"A", "b">> /\ matched[1].key_filter = <<<<"a", "B">>>>
    /\ matched[1].mode = "Jq"
    /\ matched[1].message_filter = <<<<".", "a", " ", "=", "=", " ", "b">>>>

(***************************************************************************)
(* C40: link_file_descriptors terminates for every descriptor set; on      *)
(* success every file is built only after all files it imports have been   *)
(* built; and when the imports of some file can never be resolved (a       *)
(* missing import or an import cycle) it returns an error naming the       *)
(* unresolved files.                                                       *)
(***************************************************************************)
\* The names of the files of fds that can be built once the files named in
\* S are: the files all of whose imports are in S, and so on.
RECURSIVE Resolvable(_, _)
Grown(fds, S, T) == IF T = S THEN S ELSE Resolvable(fds, T)

Resolvable(fds, S) ==
    Grown(fds, S, S \cup {fds[i].name : i \in {j \in DOMAIN fds :
                              Range(fds[j].dependency) \subseteq S}})

Unresolved(fds) == Range(NamesOf(fds)) \ Resolvable(fds, {})

LinkReturned == linked # <<>> /\ linked[1].pc = "done"

ImportsFirst(built) ==
    \A j \in DOMAIN built :
        \A k \in DOMAIN built[j].dependency :
            \E h \in 1..(j - 1) : built[h].name = built[j].dependency[k]

LinkedRight(l) ==
    /\ l.result = "Ok" => ImportsFirst(l.built)
    /\ Unresolved(l.fds) # {} =>
          l.result # "Ok" /\ Range(l.named) = Unresolved(l.fds)

\* The call returns.
LinkTerminates == (linked # <<>>) ~> LinkReturned

C40_Linked == LinkReturned => LinkedRight(linked[1])

====
